---- MODULE Spec2Model ----
(***************************************************************************)
(* Client-side conversation synchronisation of the RetroChat frontend.     *)
(*                                                                         *)
(* The model covers the message lists of the chat store (chat-store.ts),   *)
(* the socket service's server-event handlers that reconcile optimistic,   *)
(* confirmed and streaming entries (socket.service.ts), and the parts of   *)
(* ChatWindow.tsx that write to the store: handleSendMessage, the          *)
(* stream-start / stream-error listeners and loadInitialMessages.          *)
(*                                                                         *)
(* Environment.  The server is not part of the repository.  It is modelled *)
(* as the producer of the events declared in ServerToClientEvents: it      *)
(* acknowledges emitted sends in the order they were emitted, pushes       *)
(* messages of other participants, and emits AI stream events.  Stream     *)
(* events may be missed (reconnects), so any sequence of start / chunk /   *)
(* end / error events can reach the client.  Socket events are handled in  *)
(* arrival order (inbox is a FIFO); HTTP history responses travel on a     *)
(* separate channel and are unordered with respect to the socket.          *)
(* Server message ids are unique.  Between two sends the wall clock may    *)
(* have moved on or not: two sends can fall into the same millisecond.     *)
(*                                                                         *)
(* The model also covers the socket service's connection (connect,         *)
(* disconnect, the connect / disconnect / connect_error handlers and       *)
(* handleReconnect), its typing handlers with their expiry timers, and the *)
(* presence handlers that write the contact store (contact-store.ts).      *)
(* connect() and disconnect() may be called in any state.  The socket.io   *)
(* library is environment: a socket it created delivers events while it is *)
(* connected, retries by itself after a transport loss, and stays down     *)
(* after a disconnect by the server until connect() is called on it.       *)
(*                                                                         *)
(* Further parts: the window's history requests, the first load and the    *)
(* older pages of handleScroll (ChatWindow.tsx); fetchFriends of the       *)
(* contact store with its status request; and the group store              *)
(* (group-store.ts) with the mute preference, the roster requests, the     *)
(* requests of the group dialogs (GroupSettings, create group) and the     *)
(* group events of the socket service.  HTTP requests complete in any      *)
(* order or fail.  Every call of an async function is a request of its     *)
(* own: a second call does not wait for the first, and both continuations  *)
(* run.  A continuation runs as one step from one await to the next.  A    *)
(* failed request of the group store shows an error toast whose Retry      *)
(* calls the store function again.  The notification store decides whether *)
(* a sound is played (notification-store.ts).  The functions of the stores *)
(* that no component calls (clearAll, clearMessages, addConversation,      *)
(* removeConversation, clearTypingUsers, removeFriend, updateUnreadCount,  *)
(* setLoading, addGroupMember, unlockAudio) are actions of their own and   *)
(* part of SpecStores; the clears of the typing sets are also part of      *)
(* SpecTyping.                                                             *)
(* The specifications about message lists start with the socket connected; *)
(* those about the connection start with no socket.                        *)
(***************************************************************************)
EXTENDS Integers, Sequences, FiniteSets, Bags, TLC

VARIABLES
    messages,   \* chat store: conversation id -> sequence of messages
    window,     \* conversation shown by the mounted ChatWindow, or NoChat
    inbox,      \* server -> client socket events not yet handled (FIFO)
    outbox,     \* per conversation: contents emitted, not yet acknowledged
    serverLog,  \* per conversation: messages the server has persisted
    fetches,    \* history requests in flight, a bag (loadInitialMessages, handleScroll)
    seq,        \* number of events the server has produced so far
    now,        \* Date.now(): the wall clock in milliseconds
    sent,       \* number of local sends so far
    loads,      \* number of history requests started so far
    focus,      \* the conversation the server's events of this run belong to
    last,       \* the last step that wrote a message list, and the list before it
    socket,             \* SocketService.socket: index into sockets, 0 for null
    sockets,            \* the sockets io() has created, each with its state
    reconnectAttempts,  \* SocketService.reconnectAttempts
    reconnectDelay,     \* SocketService.reconnectDelay
    timers,             \* pending setTimeout callbacks of handleReconnect
    run,                \* delays handleReconnect computed since the counter was last reset
    delays,             \* the last two delays handleReconnect computed since the last connect event
    lastC,              \* the last step of the socket service, and the state before it
    typingUsers,        \* chat store: conversation id -> users typing
    typingTimeouts,     \* SocketService.typingTimeouts: the keys of the map
    armed,              \* typing-expiry timers pending in the runtime: a bag of keys
    friends,            \* contact store: user id -> status and unread count
    lastP,              \* the last step that wrote the contact store, and the store before it
    hasMoreMessages,    \* ChatWindow state: an older page may exist
    isLoadingHistory,   \* ChatWindow state: a history request of the window is running
    showGroupSettings,  \* ChatWindow state: the settings dialog has been opened
    userGroups,         \* group store: group id -> name, mute flag, unread count, members
    groupMembers,       \* group store: group id -> members fetched
    groupFetches,       \* group store: the requests in flight, a bag
    lastG,              \* the last step that touched the group store, and what it produced
    loading,            \* contact store: loading
    checked,            \* user ids named in the user:check-status requests emitted so far
    friendFetches,      \* contact store: the fetchFriends calls running, a bag
    fetched,            \* the friend ids of the last fetchFriends call that ran to its end
    soundEnabled,       \* notification store: soundEnabled
    audioUnlocked,      \* notification store: audioUnlocked
    retryToasts,        \* the error toasts on screen that offer Retry: a bag of the calls they repeat
    conversations       \* chat store: conversation id -> last message and unread count

chatVars ==
    <<messages, window, inbox, outbox, serverLog, fetches, seq, now, sent, loads, focus, last>>

connVars == <<socket, sockets, reconnectAttempts, reconnectDelay, timers, run, delays, lastC>>

typingVars == <<typingUsers, typingTimeouts, armed>>

contactVars == <<friends, lastP>>

windowVars == <<hasMoreMessages, isLoadingHistory, showGroupSettings>>

groupVars == <<userGroups, groupMembers, groupFetches, lastG>>

resyncVars == <<loading, checked, friendFetches, fetched>>

notifyVars == <<soundEnabled, audioUnlocked, retryToasts, conversations>>

vars == <<chatVars, connVars, typingVars, contactVars, windowVars, groupVars, resyncVars, notifyVars>>

(***************************************************************************)
(* Bounds                                                                  *)
(***************************************************************************)
MaxEvents == 3      \* events the server produces in one run
MaxSends == 2       \* local sends in one run
MaxInbox == 1       \* socket events in flight
MaxLoads == 1       \* conversations opened (history requests) in one run

Contents == {"a", "b"}              \* what the user types
Responses == {"Hel", "Hello"}       \* cumulative text of a stream chunk
PushContent == "hi"                 \* content of a message of another participant
FinalContent == "Hello!"            \* content of the final AI message

(***************************************************************************)
(* Conversations                                                           *)
(***************************************************************************)
DirectId == "u1"
GroupId == "g1"
AIFriendId == "ai-friend"
Convs == {DirectId, GroupId, AIFriendId}
\* The id of the AI companion's contact, `ai-friend-${user.id}`, which the
\* window opened from it carries as conversation.id; the messages of the
\* companion are kept under "ai-friend".
AIFriendChatId == "ai-friend-me"
ConversationId(c) == IF c = AIFriendId THEN AIFriendChatId ELSE c
NoChat == "none"

PageSize == 50

(***************************************************************************)
(* Messages.  An id is a record (kind, number) standing for the strings    *)
(* the code builds: `temp-${Date.now()}`, a server id, or one of the fixed *)
(* streaming ids.                                                          *)
(***************************************************************************)
TempId(t) == [k |-> "temp", n |-> t]
ServerId(i) == [k |-> "srv", n |-> i]
FixedId(s) == [k |-> s, n |-> 0]

StreamingPlaceholder == FixedId("streaming-placeholder")
StreamingTemp == FixedId("streaming-temp")
GroupStreamingPlaceholder == FixedId("group-ai-streaming-placeholder")
GroupStreamingTemp == FixedId("group-ai-streaming-temp")

StreamingIds ==
    {StreamingPlaceholder, StreamingTemp, GroupStreamingPlaceholder, GroupStreamingTemp}

Msg(id, content, pending, ai) ==
    [id |-> id, content |-> content, isPending |-> pending, isAIGenerated |-> ai]

NoMsg == Msg(FixedId("none"), "", FALSE, FALSE)

Event(type, conv, msg, text) ==
    [type |-> type, conv |-> conv, msg |-> msg, text |-> text]

\* A handled step: the event, the window mounted and the list as it was before.
Step(type, conv, msg, text, win, before) ==
    [type |-> type, conv |-> conv, msg |-> msg, text |-> text,
     win |-> win, before |-> before]

(***************************************************************************)
(* Sequence helpers                                                        *)
(***************************************************************************)
Indices(s) == 1..Len(s)

LastN(s, n) == IF Len(s) <= n THEN s ELSE SubSeq(s, Len(s) - n + 1, Len(s))

(***************************************************************************)
(* chat-store.ts                                                           *)
(***************************************************************************)
\* The store's `messages` is a Map: a conversation has no list until one is set.
EmptyStore == [c \in {} |-> <<>>]

Put(store, conversationId, msgs) ==
    [c \in DOMAIN store \cup {conversationId} |->
        IF c = conversationId THEN msgs ELSE store[c]]

\* map.delete(id)
Without(m, id) == [x \in DOMAIN m \ {id} |-> m[x]]

SetEntry(m, id, v) == [x \in DOMAIN m \cup {id} |-> IF x = id THEN v ELSE m[x]]

\* messages.get(conversationId) || []
GetMessages(store, conversationId) ==
    IF conversationId \in DOMAIN store THEN store[conversationId] ELSE <<>>

\* Faulty variant: the new message is put in front of the list.
addMessageFront(store, conversationId, message) ==
    Put(store, conversationId, <<message>> \o GetMessages(store, conversationId))

addMessage(store, conversationId, message) ==
    Put(store, conversationId, Append(GetMessages(store, conversationId), message))

setMessages(store, conversationId, msgs) ==
    Put(store, conversationId, msgs)

(***************************************************************************)
(* socket.service.ts: send acknowledgements.  The three handlers hold the  *)
(* same code: map every pending entry with the acknowledged content to the *)
(* acknowledged message, and push the message when no entry matched.       *)
(***************************************************************************)
IsOptimisticFor(msg, message) == msg.isPending /\ msg.content = message.content

\* Faulty variant: the acknowledged message is dropped when no entry matched.
OnMessageSentNoPush(store, toUserId, message) ==
    LET msgs == GetMessages(store, toUserId)
    IN  setMessages(store, toUserId,
            [i \in Indices(msgs) |->
                IF IsOptimisticFor(msgs[i], message)
                THEN [message EXCEPT !.isPending = FALSE]
                ELSE msgs[i]])

OnMessageSent(store, toUserId, message) ==
    LET msgs == GetMessages(store, toUserId)
        updatedMessages ==
            [i \in Indices(msgs) |->
                IF IsOptimisticFor(msgs[i], message)
                THEN [message EXCEPT !.isPending = FALSE]
                ELSE msgs[i]]
    IN  setMessages(store, toUserId,
            IF ~(\E i \in Indices(msgs) : IsOptimisticFor(msgs[i], message))
            THEN Append(updatedMessages, message)
            ELSE updatedMessages)

OnGroupMessageSent(store, groupId, message) ==
    LET msgs == GetMessages(store, groupId)
        updatedMessages ==
            [i \in Indices(msgs) |->
                IF IsOptimisticFor(msgs[i], message)
                THEN [message EXCEPT !.isPending = FALSE]
                ELSE msgs[i]]
    IN  setMessages(store, groupId,
            IF ~(\E i \in Indices(msgs) : IsOptimisticFor(msgs[i], message))
            THEN Append(updatedMessages, message)
            ELSE updatedMessages)

OnAIFriendUserMessageSent(store, message) ==
    LET msgs == GetMessages(store, AIFriendId)
        updatedMessages ==
            [i \in Indices(msgs) |->
                IF IsOptimisticFor(msgs[i], message)
                THEN [message EXCEPT !.isPending = FALSE]
                ELSE msgs[i]]
    IN  setMessages(store, AIFriendId,
            IF ~(\E i \in Indices(msgs) : IsOptimisticFor(msgs[i], message))
            THEN Append(updatedMessages, message)
            ELSE updatedMessages)

(***************************************************************************)
(* socket.service.ts: remote pushes                                        *)
(***************************************************************************)
OnMessageReceive(store, fromUserId, message) == addMessage(store, fromUserId, message)

OnGroupMessageReceive(store, groupId, message) == addMessage(store, groupId, message)

(***************************************************************************)
(* socket.service.ts: AI streaming.  A chunk looks only at the last entry  *)
(* of the list: when it is AI generated its content is overwritten,        *)
(* otherwise a "-temp" entry is added.                                     *)
(***************************************************************************)
OnGroupAIStreamChunk(store, groupId, fullResponse) ==
    LET msgs == GetMessages(store, groupId)
    IN  IF Len(msgs) > 0 /\ msgs[Len(msgs)].isAIGenerated
        THEN setMessages(store, groupId,
                [msgs EXCEPT ![Len(msgs)].content = fullResponse])
        ELSE addMessage(store, groupId,
                Msg(GroupStreamingTemp, fullResponse, FALSE, TRUE))

OnGroupAIStreamEnd(store, groupId, message) ==
    LET msgs == GetMessages(store, groupId)
        Keep(m) == ~(m.id = GroupStreamingTemp \/ m.id = GroupStreamingPlaceholder)
    IN  setMessages(store, groupId, Append(SelectSeq(msgs, Keep), message))

OnAIFriendStreamChunk(store, fullResponse) ==
    LET msgs == GetMessages(store, AIFriendId)
    IN  IF Len(msgs) > 0 /\ msgs[Len(msgs)].isAIGenerated
        THEN setMessages(store, AIFriendId,
                [msgs EXCEPT ![Len(msgs)].content = fullResponse])
        ELSE addMessage(store, AIFriendId,
                Msg(StreamingTemp, fullResponse, FALSE, TRUE))

OnAIFriendStreamEnd(store, message) ==
    LET msgs == GetMessages(store, AIFriendId)
        Keep(m) == ~(m.id = StreamingTemp \/ m.id = StreamingPlaceholder)
    IN  setMessages(store, AIFriendId, Append(SelectSeq(msgs, Keep), message))

(***************************************************************************)
(* ChatWindow.tsx: listeners of the custom events the socket service       *)
(* dispatches on window.  They exist only while a ChatWindow of the        *)
(* matching kind is mounted; the group listeners also compare the group    *)
(* id of the event with the conversation shown.                            *)
(***************************************************************************)
Kind(c) ==
    IF c = GroupId THEN "group" ELSE IF c = AIFriendId THEN "ai-friend" ELSE "direct"

handleStreamStart(store, win) ==
    IF win # NoChat /\ Kind(win) = "ai-friend"
    THEN addMessage(store, AIFriendId, Msg(StreamingPlaceholder, "", FALSE, TRUE))
    ELSE store

handleStreamError(store, win) ==
    IF win # NoChat /\ Kind(win) = "ai-friend"
    THEN LET Keep(m) == m.id # StreamingPlaceholder /\ m.id # StreamingTemp
         IN  setMessages(store, AIFriendId,
                SelectSeq(GetMessages(store, AIFriendId), Keep))
    ELSE store

handleGroupAIStreamStart(store, win, groupId) ==
    IF win # NoChat /\ Kind(win) = "group" /\ groupId = win
    THEN addMessage(store, win, Msg(GroupStreamingPlaceholder, "", FALSE, TRUE))
    ELSE store

handleGroupAIStreamError(store, win, groupId) ==
    IF win # NoChat /\ Kind(win) = "group" /\ groupId = win
    THEN LET Keep(m) == m.id # GroupStreamingPlaceholder /\ m.id # GroupStreamingTemp
         IN  setMessages(store, win, SelectSeq(GetMessages(store, win), Keep))
    ELSE store

(***************************************************************************)
(* contact-store.ts: the friends map.  An entry holds the contact's status *)
(* and unread count; the profile fields are never written by the events    *)
(* modelled and are left out.                                              *)
(***************************************************************************)
Users == {"u1", "u2", "u3"}
Statuses == {"online", "away", "offline"}

Contact(status, unreadCount) == [status |-> status, unreadCount |-> unreadCount]

EmptyFriends == [u \in {} |-> Contact("offline", 0)]

\* setFriends: every friend of the fetched list starts offline with no unread.
setFriendsMap(list) == [u \in list |-> Contact("offline", 0)]

\* Faulty variant: an id that is not a contact gets an entry.
updateOnlineStatusUpsert(fs, userId, status) ==
    [u \in DOMAIN fs \cup {userId} |->
        IF u = userId
        THEN Contact(status, IF u \in DOMAIN fs THEN fs[u].unreadCount ELSE 0)
        ELSE fs[u]]

updateOnlineStatus(fs, userId, status) ==
    IF userId \in DOMAIN fs
    THEN [fs EXCEPT ![userId] = [@ EXCEPT !.status = status]]
    ELSE fs

incrementUnreadCount(fs, userId) ==
    IF userId \in DOMAIN fs
    THEN [fs EXCEPT ![userId] = [@ EXCEPT !.unreadCount = @ + 1]]
    ELSE fs

ContactStep(type, statuses, before) ==
    [type |-> type, statuses |-> statuses, before |-> before]

\* resetUnreadCount, of the contact store and of the group store alike.
resetUnreadCount(fs, id) ==
    IF id \in DOMAIN fs
    THEN [fs EXCEPT ![id] = [@ EXCEPT !.unreadCount = 0]]
    ELSE fs

(***************************************************************************)
(* chat-store.ts: the conversations map.  An entry holds the id of the     *)
(* conversation's last message and its unread count.  addConversation is   *)
(* the only function that creates an entry; updateConversation,            *)
(* incrementUnreadCount and resetUnreadCount write an entry that exists    *)
(* and nothing otherwise.                                                  *)
(***************************************************************************)
Conversation(lastMessage, unreadCount) ==
    [lastMessage |-> lastMessage, unreadCount |-> unreadCount]

NoLastMessage == FixedId("none")

EmptyConversations == [c \in {} |-> Conversation(NoLastMessage, 0)]

addConversation(cs, id, conversation) == SetEntry(cs, id, conversation)

\* updateConversation(id, { lastMessage })
updateConversation(cs, id, lastMessage) ==
    IF id \in DOMAIN cs
    THEN [cs EXCEPT ![id] = [@ EXCEPT !.lastMessage = lastMessage]]
    ELSE cs

removeConversation(cs, id) == Without(cs, id)

(***************************************************************************)
(* notification-store.ts.  playMessageSound plays the sound only if the    *)
(* sounds are enabled and the audio has been unlocked;                     *)
(* showGroupMessageNotification always shows its toast.                    *)
(***************************************************************************)
\* if (state.soundEnabled && state.audioUnlocked) audio.play()
playMessageSound(enabled, unlocked) == enabled /\ unlocked

\* playGroupInviteSound: the same test before the invite's sound.
playGroupInviteSound(enabled, unlocked) == enabled /\ unlocked

(***************************************************************************)
(* group-store.ts: userGroups and groupMembers.  A roster entry holds the  *)
(* group's name, its mute flag (absent until muteGroup sets it, which      *)
(* reads as false), its unread count and its members.                      *)
(***************************************************************************)
Me == "me"                      \* authStore.user.id
OtherGroupId == "g2"
Groups == {GroupId, OtherGroupId}   \* the groups the server holds for the user
ServerName == "name"            \* the name the server holds for a group
GroupUpdates == {[name |-> "renamed"]}
\* GroupMember: the user and the admin flag.
Member(userId, isAdmin) == [userId |-> userId, isAdmin |-> isAdmin]

\* The lists the server answers with: the user is the group's admin, or a
\* plain member of it.
MemberLists == {<<Member(Me, TRUE), Member("u2", FALSE)>>, <<Member(Me, FALSE)>>}
GroupUsers == {"u2"}            \* the member the admin adds or removes
MaxMembers == 4                 \* entries of one member list

GroupEntry(name, isMuted, unreadCount, members) ==
    [name |-> name, isMuted |-> isMuted, unreadCount |-> unreadCount, members |-> members]

EmptyGroups == [g \in {} |-> GroupEntry(ServerName, FALSE, 0, <<>>)]

EmptyMembers == [g \in {} |-> <<>>]

\* setGroups builds a new map from the server's list: no members, nothing
\* unread, and no isMuted field.
setGroups(groups) == [g \in groups |-> GroupEntry(ServerName, FALSE, 0, <<>>)]

\* { ...group, ...updates }
updateGroup(gs, groupId, updates) ==
    IF groupId \in DOMAIN gs
    THEN [gs EXCEPT ![groupId] =
            [f \in DOMAIN @ |-> IF f \in DOMAIN updates THEN updates[f] ELSE @[f]]]
    ELSE gs

removeGroup(gs, groupId) == Without(gs, groupId)

WithMembers(gs, groupId, members) ==
    IF groupId \in DOMAIN gs
    THEN [gs EXCEPT ![groupId] = [@ EXCEPT !.members = members]]
    ELSE gs

\* groupMembers.get(groupId) || []
MembersOf(gm, groupId) == IF groupId \in DOMAIN gm THEN gm[groupId] ELSE <<>>

SetMute(gs, groupId, isMuted) ==
    IF groupId \in DOMAIN gs
    THEN [gs EXCEPT ![groupId] = [@ EXCEPT !.isMuted = isMuted]]
    ELSE gs

muteGroup(gs, groupId) == SetMute(gs, groupId, TRUE)

unmuteGroup(gs, groupId) == SetMute(gs, groupId, FALSE)

toggleMute(gs, groupId) ==
    IF groupId \in DOMAIN gs /\ gs[groupId].isMuted
    THEN unmuteGroup(gs, groupId)
    ELSE muteGroup(gs, groupId)

\* addGroup: the entry is written as setGroups writes it.
addGroup(gs, groupId) == SetEntry(gs, groupId, GroupEntry(ServerName, FALSE, 0, <<>>))

\* members.find((m) => m.userId === userId)?.isAdmin || false: the first
\* entry of the user in the list decides.
isUserAdmin(gm, groupId, userId) ==
    LET members == MembersOf(gm, groupId)
        found == {i \in DOMAIN members : members[i].userId = userId}
    IN  /\ found # {}
        /\ members[CHOOSE i \in found : \A j \in found : i <= j].isAdmin

\* members.filter((m) => m.userId !== userId)
OtherMembers(gm, groupId, userId) ==
    LET Other(m) == m.userId # userId
    IN  SelectSeq(MembersOf(gm, groupId), Other)

\* removeGroupMember, on the groupMembers map
removeGroupMember(gm, groupId, userId) ==
    SetEntry(gm, groupId, OtherMembers(gm, groupId, userId))

UnreadCounts == {0, 2}

\* updateUnreadCount, of the contact store and of the group store alike.
updateUnreadCount(fs, id, count) ==
    IF id \in DOMAIN fs
    THEN [fs EXCEPT ![id] = [@ EXCEPT !.unreadCount = count]]
    ELSE fs

\* The requests of the group store in flight: a bag, since every call
\* starts its own.
MaxRequests == 2

GroupsRequest == [kind |-> "groups", group |-> ""]

\* What awaits a fetchGroupMembers call: nothing, the addMember call that
\* refreshes the list, or the Promise.all of a fetchUserGroups call.
NoParent == [kind |-> "none", user |-> "", call |-> 0]

AddMemberParent(userId) == [kind |-> "addMember", user |-> userId, call |-> 0]

CallParent(n) == [kind |-> "fetchUserGroups", user |-> "", call |-> n]

MembersRequest(groupId, parent) == [kind |-> "members", group |-> groupId, parent |-> parent]

GroupRequest(kind, groupId, userId) == [kind |-> kind, group |-> groupId, user |-> userId]

Room(n) == BagCardinality(groupFetches) + n <= MaxRequests

Started(reqs, req) == reqs (+) SetToBag({req})

Ended(reqs, req) == reqs (-) SetToBag({req})

\* What a step did to the group store and what the notification store did
\* for it: the sound played, the notification shown and its hasMention.
\* A group:message:receive step also records the chat store's conversations
\* before it.
GroupStep(type, groupId, userId, active, sound, notification, hasMention, before) ==
    [type |-> type, group |-> groupId, user |-> userId, active |-> active,
     sound |-> sound, notification |-> notification, hasMention |-> hasMention,
     before |-> before, conversations |-> EmptyConversations]

\* What a step that replaces or updates the roster records of the roster
\* before it: the groups and their mute flags.
MuteFlags(gs) == [g \in DOMAIN gs |-> GroupEntry(ServerName, gs[g].isMuted, 0, <<>>)]

\* A step the properties say nothing about.
Plain == GroupStep("other", "", "", FALSE, FALSE, FALSE, FALSE, EmptyGroups)

NoGroupStep == Plain

(***************************************************************************)
(* ChatWindow.tsx: handleSendMessage.  The optimistic entry is added to    *)
(* the list of the conversation shown ("ai-friend" for the AI companion)   *)
(* and the send is emitted in the same step.  The service's send methods   *)
(* are this.socket?.emit(...): with a socket the send goes out (socket.io  *)
(* holds it back while the socket is not connected), with none it is       *)
(* dropped.                                                                *)
(***************************************************************************)
OptimisticMessage(t, content) == Msg(TempId(t), content, TRUE, FALSE)

\* sendMessage / sendGroupMessage / sendAIFriendMessage
sendMessage(queue, content) == IF socket # 0 THEN Append(queue, content) ELSE queue

\* The id is built from Date.now().  elapsed is the time that passes before
\* the clock is read again: none when the next send falls into the same
\* millisecond.
Elapsed == {0, 1}

handleSendMessage(content, elapsed) ==
    /\ window # NoChat
    /\ sent < MaxSends
    /\ messages' = addMessage(messages, window, OptimisticMessage(now, content))
    /\ outbox' = [outbox EXCEPT ![window] = sendMessage(@, content)]
    /\ sent' = sent + 1
    /\ now' = now + elapsed
    /\ last' = Step("send", window, OptimisticMessage(now, content), content,
                    NoChat, GetMessages(messages, window))
    /\ UNCHANGED <<window, inbox, serverLog, fetches, seq, loads, focus>>
    /\ UNCHANGED <<connVars, typingVars, contactVars, windowVars, groupVars, resyncVars, notifyVars>>

(***************************************************************************)
(* ChatPageClient.tsx / ChatWindow.tsx: choosing a conversation mounts the *)
(* window for it, or hands the mounted window the new conversation; either *)
(* starts loadInitialMessages.  The request's continuation holds the       *)
(* conversation it was started for and writes when the request completes,  *)
(* whatever is shown then.  Its setState calls reach the window only while *)
(* the window that started it is still mounted.                            *)
(***************************************************************************)
Fetch(conv, st, data, cursor, live) ==
    [conv |-> conv, st |-> st, data |-> data, cursor |-> cursor, live |-> live]

InitialStates == {"req", "resp"}
PageStates == {"pagereq", "pageresp"}

\* Faulty variant: the result goes to the conversation shown at completion.
TargetShown(f) == window

\* conversation.id as the continuation captured it.
Target(f) == f.conv

\* GroupSettings is rendered by ChatWindow for a group of the roster while
\* showGroupSettings is set.
DialogRendered(open, c, gs) == open /\ c # NoChat /\ Kind(c) = "group" /\ c \in DOMAIN gs

SettingsShown == DialogRendered(showGroupSettings, window, userGroups)

\* The dialog's effect on [open, groupId] runs when the dialog is mounted
\* and when it is handed another group: fetchGroupMembers(groupId).
Mounted(open, c, gs) ==
    IF DialogRendered(open, c, gs) /\ (~SettingsShown \/ c # window) THEN {c} ELSE {}

DialogEffect(open, c, gs) ==
    SetToBag({MembersRequest(g, NoParent) : g \in Mounted(open, c, gs)})

\* For a group the page shows GroupMemberList beside the window, whose
\* effect fetches the members of the group.
setActiveChat(c) ==
    /\ c # window
    /\ loads < MaxLoads
    /\ window' = c
    /\ fetches' = Started(fetches, Fetch(c, "req", <<>>, "", TRUE))
    /\ loads' = loads + 1
    /\ isLoadingHistory' = TRUE
    /\ hasMoreMessages' = IF window = NoChat THEN TRUE ELSE hasMoreMessages
    /\ UNCHANGED showGroupSettings
    /\ IF Kind(c) = "group"
       THEN /\ Room(1 + Cardinality(Mounted(showGroupSettings, c, userGroups)))
            /\ groupFetches' = Started(groupFetches, MembersRequest(c, NoParent)) (+)
                                    DialogEffect(showGroupSettings, c, userGroups)
       ELSE UNCHANGED groupFetches
    /\ UNCHANGED <<userGroups, groupMembers, lastG>>
    /\ UNCHANGED <<messages, inbox, outbox, serverLog, seq, now, sent, focus, last>>
    /\ UNCHANGED <<connVars, typingVars, contactVars, resyncVars, notifyVars>>

\* setActiveChat(null).  Unmounting: the window's state is gone, the next
\* mount starts afresh.
Unmounted(f) == [f EXCEPT !.live = FALSE]

\* The requests in flight once the window that started them is gone.
Orphaned(reqs) ==
    [f \in {Unmounted(g) : g \in BagToSet(reqs)} |->
        CopiesIn(f, reqs) + CopiesIn([f EXCEPT !.live = TRUE], reqs)]

Closed ==
    /\ window' = NoChat
    /\ fetches' = Orphaned(fetches)
    /\ hasMoreMessages' = TRUE
    /\ isLoadingHistory' = FALSE
    /\ showGroupSettings' = FALSE

onClose ==
    /\ window # NoChat
    /\ Closed
    /\ UNCHANGED <<messages, inbox, outbox, serverLog, seq, now, sent, last, loads, focus>>
    /\ UNCHANGED <<connVars, typingVars, contactVars, groupVars, resyncVars, notifyVars>>

\* chatService.getConversation / groupsService.getMessages: the server answers
\* with the last PageSize messages it holds for the conversation.
HistoryResponse(f) ==
    /\ f.st = "req"
    /\ fetches' = Started(Ended(fetches, f),
            [f EXCEPT !.st = "resp", !.data = LastN(serverLog[f.conv], PageSize)])
    /\ UNCHANGED <<messages, window, inbox, outbox, serverLog, seq, now, sent, last, loads, focus>>
    /\ UNCHANGED <<connVars, typingVars, contactVars, windowVars, groupVars, resyncVars, notifyVars>>

\* finally { setIsLoadingHistory(false) }, after setHasMoreMessages on success
Settled(f, more) ==
    IF f.live
    THEN /\ hasMoreMessages' = more
         /\ isLoadingHistory' = FALSE
         /\ UNCHANGED showGroupSettings
    ELSE UNCHANGED windowVars

loadInitialMessages(f) ==
    /\ f.st = "resp"
    /\ messages' = setMessages(messages, Target(f), f.data)
    /\ fetches' = Ended(fetches, f)
    /\ last' = Step("history", f.conv, NoMsg, "", window, GetMessages(messages, f.conv))
    /\ Settled(f, Len(f.data) = PageSize)
    /\ IF Kind(f.conv) = "direct" /\ f.conv \in DOMAIN friends
       THEN /\ friends' = resetUnreadCount(friends, f.conv)
            /\ lastP' = ContactStep("resetUnreadCount", <<>>, friends)
       ELSE UNCHANGED contactVars
    /\ IF Kind(f.conv) = "group" /\ f.conv \in DOMAIN userGroups
       THEN /\ userGroups' = resetUnreadCount(userGroups, f.conv)
            /\ lastG' = Plain
            /\ UNCHANGED <<groupMembers, groupFetches>>
       ELSE UNCHANGED groupVars
    /\ conversations' = resetUnreadCount(conversations, ConversationId(f.conv))
    /\ UNCHANGED <<soundEnabled, audioUnlocked, retryToasts>>
    /\ UNCHANGED <<window, inbox, outbox, serverLog, seq, now, sent, loads, focus>>
    /\ UNCHANGED <<connVars, typingVars, resyncVars>>

\* The request fails: the catch branch logs and writes nothing.
loadInitialMessagesFailed(f) ==
    /\ f.st \in InitialStates
    /\ fetches' = Ended(fetches, f)
    /\ Settled(f, hasMoreMessages)
    /\ UNCHANGED <<messages, window, inbox, outbox, serverLog, seq, now, sent, last, loads, focus>>
    /\ UNCHANGED <<connVars, typingVars, contactVars, groupVars, resyncVars, notifyVars>>

(***************************************************************************)
(* ChatWindow.tsx: handleScroll, when the list is scrolled to its top.     *)
(* Only a group has older pages to ask for; a direct conversation is       *)
(* marked as having none.  With no message in the list, and for the AI     *)
(* companion, the call changes nothing.                                    *)
(***************************************************************************)
\* chat-store.ts: prependMessages
prependMessages(store, conversationId, msgs) ==
    Put(store, conversationId, msgs \o GetMessages(store, conversationId))

handleScroll ==
    /\ window # NoChat
    /\ ~isLoadingHistory
    /\ hasMoreMessages
    /\ GetMessages(messages, window) # <<>>
    /\ Kind(window) # "ai-friend"
    /\ IF Kind(window) = "group"
       THEN /\ fetches' = Started(fetches,
                    Fetch(window, "pagereq", <<>>, Head(GetMessages(messages, window)).id, TRUE))
            /\ isLoadingHistory' = TRUE
            /\ UNCHANGED hasMoreMessages
       ELSE /\ hasMoreMessages' = FALSE
            /\ UNCHANGED <<fetches, isLoadingHistory>>
    /\ UNCHANGED showGroupSettings
    /\ UNCHANGED <<messages, window, inbox, outbox, serverLog, seq, now, sent, last, loads, focus>>
    /\ UNCHANGED <<connVars, typingVars, contactVars, groupVars, resyncVars, notifyVars>>

\* The messages the server holds before the one with the given id.
RECURSIVE Older(_, _)
Older(log, id) ==
    IF log = <<>> THEN <<>>
    ELSE IF log[Len(log)].id = id THEN SubSeq(log, 1, Len(log) - 1)
    ELSE Older(SubSeq(log, 1, Len(log) - 1), id)

\* groupsService.getMessages(groupId, 50, before)
PageResponse(f) ==
    /\ f.st = "pagereq"
    /\ fetches' = Started(Ended(fetches, f),
            [f EXCEPT !.st = "pageresp",
                      !.data = LastN(Older(serverLog[f.conv], f.cursor), PageSize)])
    /\ UNCHANGED <<messages, window, inbox, outbox, serverLog, seq, now, sent, last, loads, focus>>
    /\ UNCHANGED <<connVars, typingVars, contactVars, windowVars, groupVars, resyncVars, notifyVars>>

handleScrollLoaded(f) ==
    /\ f.st = "pageresp"
    /\ messages' = prependMessages(messages, Target(f), f.data)
    /\ fetches' = Ended(fetches, f)
    /\ last' = Step("page", f.conv, NoMsg, "", window, GetMessages(messages, f.conv))
    /\ Settled(f, Len(f.data) = PageSize)
    /\ UNCHANGED <<window, inbox, outbox, serverLog, seq, now, sent, loads, focus>>
    /\ UNCHANGED <<connVars, typingVars, contactVars, groupVars, resyncVars, notifyVars>>

handleScrollFailed(f) ==
    /\ f.st \in PageStates
    /\ fetches' = Ended(fetches, f)
    /\ Settled(f, hasMoreMessages)
    /\ UNCHANGED <<messages, window, inbox, outbox, serverLog, seq, now, sent, last, loads, focus>>
    /\ UNCHANGED <<connVars, typingVars, contactVars, groupVars, resyncVars, notifyVars>>

(***************************************************************************)
(* The server (environment).  Each event it produces takes the next        *)
(* sequence number; a message it creates gets that number as its id and is *)
(* persisted before the event is sent.                                     *)
(***************************************************************************)
CanEmit(c) == c = focus /\ seq < MaxEvents /\ Len(inbox) < MaxInbox

Emit(e) ==
    /\ inbox' = Append(inbox, e)
    /\ seq' = seq + 1

AckType(c) ==
    IF Kind(c) = "group" THEN "group:message:sent"
    ELSE IF Kind(c) = "ai-friend" THEN "ai-friend:user-message-sent"
    ELSE "message:sent"

ServerAck(c) ==
    /\ CanEmit(c)
    /\ outbox[c] # <<>>
    /\ LET message == Msg(ServerId(seq + 1), Head(outbox[c]), FALSE, FALSE)
       IN  /\ Emit(Event(AckType(c), c, message, ""))
           /\ serverLog' = [serverLog EXCEPT ![c] = Append(@, message)]
    /\ outbox' = [outbox EXCEPT ![c] = Tail(@)]
    /\ UNCHANGED <<messages, window, fetches, now, sent, last, loads, focus>>
    /\ UNCHANGED <<connVars, typingVars, contactVars, windowVars, groupVars, resyncVars, notifyVars>>

ServerPush(c, content) ==
    /\ CanEmit(c)
    /\ Kind(c) # "ai-friend"
    /\ LET message == Msg(ServerId(seq + 1), content, FALSE, FALSE)
       IN  /\ Emit(Event(IF Kind(c) = "group" THEN "group:message:receive"
                         ELSE "message:receive", c, message, ""))
           /\ serverLog' = [serverLog EXCEPT ![c] = Append(@, message)]
    /\ UNCHANGED <<messages, window, outbox, fetches, now, sent, last, loads, focus>>
    /\ UNCHANGED <<connVars, typingVars, contactVars, windowVars, groupVars, resyncVars, notifyVars>>

ServerStreamStart(c) ==
    /\ CanEmit(c)
    /\ Kind(c) # "direct"
    /\ Emit(Event(IF Kind(c) = "group" THEN "group:ai:stream-start"
                  ELSE "ai-friend:stream-start", c, NoMsg, ""))
    /\ UNCHANGED <<messages, window, outbox, serverLog, fetches, now, sent, last, loads, focus>>
    /\ UNCHANGED <<connVars, typingVars, contactVars, windowVars, groupVars, resyncVars, notifyVars>>

ServerStreamChunk(c, fullResponse) ==
    /\ CanEmit(c)
    /\ Kind(c) # "direct"
    /\ Emit(Event(IF Kind(c) = "group" THEN "group:ai:stream-chunk"
                  ELSE "ai-friend:stream-chunk", c, NoMsg, fullResponse))
    /\ UNCHANGED <<messages, window, outbox, serverLog, fetches, now, sent, last, loads, focus>>
    /\ UNCHANGED <<connVars, typingVars, contactVars, windowVars, groupVars, resyncVars, notifyVars>>

ServerStreamEnd(c, content) ==
    /\ CanEmit(c)
    /\ Kind(c) # "direct"
    /\ LET message == Msg(ServerId(seq + 1), content, FALSE, TRUE)
       IN  /\ Emit(Event(IF Kind(c) = "group" THEN "group:ai:stream-end"
                         ELSE "ai-friend:stream-end", c, message, ""))
           /\ serverLog' = [serverLog EXCEPT ![c] = Append(@, message)]
    /\ UNCHANGED <<messages, window, outbox, fetches, now, sent, last, loads, focus>>
    /\ UNCHANGED <<connVars, typingVars, contactVars, windowVars, groupVars, resyncVars, notifyVars>>

ServerStreamError(c) ==
    /\ CanEmit(c)
    /\ Kind(c) # "direct"
    /\ Emit(Event(IF Kind(c) = "group" THEN "group:ai:error"
                  ELSE "ai-friend:error", c, NoMsg, ""))
    /\ UNCHANGED <<messages, window, outbox, serverLog, fetches, now, sent, last, loads, focus>>
    /\ UNCHANGED <<connVars, typingVars, contactVars, windowVars, groupVars, resyncVars, notifyVars>>

(***************************************************************************)
(* socket.service.ts: setupEventListeners.  One action per handler; each   *)
(* takes the oldest event of the socket.                                   *)
(***************************************************************************)
Arrived(type) == inbox # <<>> /\ Head(inbox).type = type

\* The events whose effect on the store depends on the window mounted.
WindowEvents ==
    {"group:ai:stream-start", "group:ai:error", "ai-friend:stream-start", "ai-friend:error"}

\* group:message:receive, for a group of the roster: what the handler does
\* besides writing the message list and the conversation.  mentioned says
\* whether message.mentionedUserIds includes the current user.
\* The branch of the handler that calls playMessageSound and
\* showGroupMessageNotification:
\* if (group && !group.isMuted) ... else if (group && group.isMuted) { if (hasMention) ... }
Notifies(group, hasMention) == ~group.isMuted \/ hasMention

\* The step records the sound played, which is playMessageSound's to decide,
\* and the toast shown, which showGroupMessageNotification always shows.
GroupReceived(groupId, mentioned) ==
    /\ IF window # groupId
       THEN /\ userGroups' = incrementUnreadCount(userGroups, groupId)
            /\ lastG' = [GroupStep("group:message:receive", groupId, "", FALSE,
                                   Notifies(userGroups[groupId], mentioned)
                                       /\ playMessageSound(soundEnabled, audioUnlocked),
                                   Notifies(userGroups[groupId], mentioned),
                                   mentioned, userGroups)
                          EXCEPT !.conversations = conversations]
       ELSE /\ lastG' = [GroupStep("group:message:receive", groupId, "", TRUE,
                                   FALSE, FALSE, FALSE, userGroups)
                          EXCEPT !.conversations = conversations]
            /\ UNCHANGED userGroups
    /\ UNCHANGED <<groupMembers, groupFetches>>

\* The handlers that call chatStore.updateConversation(id, { lastMessage }).
ConversationEvents ==
    {"message:receive", "message:sent", "group:message:receive", "group:message:sent",
     "ai-friend:user-message-sent"}

\* chatStore.updateConversation, and chatStore.incrementUnreadCount of the
\* two receive handlers if the conversation is not the active chat.
ConversationHandled(cs, e) ==
    LET updated == IF e.type \in ConversationEvents
                   THEN updateConversation(cs, e.conv, e.msg.id)
                   ELSE cs
    IN  IF e.type \in {"message:receive", "group:message:receive"} /\ window # e.conv
        THEN incrementUnreadCount(updated, e.conv)
        ELSE updated

\* What every handler does besides writing the store.
Handled(e) ==
    /\ inbox' = Tail(inbox)
    /\ last' = Step(e.type, e.conv, e.msg, e.text,
                    IF e.type \in WindowEvents THEN window ELSE NoChat,
                    GetMessages(messages, e.conv))
    /\ UNCHANGED <<window, outbox, serverLog, fetches, seq, now, sent, loads, focus>>
    /\ IF e.type = "message:receive" /\ window # e.conv /\ e.conv \in DOMAIN friends
       THEN /\ friends' = incrementUnreadCount(friends, e.conv)
            /\ lastP' = ContactStep(e.type, <<>>, friends)
       ELSE UNCHANGED contactVars
    /\ IF e.type = "group:message:receive" /\ e.conv \in DOMAIN userGroups
       THEN \E mentioned \in BOOLEAN : GroupReceived(e.conv, mentioned)
       ELSE UNCHANGED groupVars
    /\ conversations' = ConversationHandled(conversations, e)
    /\ UNCHANGED <<soundEnabled, audioUnlocked, retryToasts>>
    /\ UNCHANGED <<connVars, typingVars, windowVars, resyncVars>>

On_message_receive ==
    /\ Arrived("message:receive")
    /\ LET e == Head(inbox)
       IN  /\ messages' = OnMessageReceive(messages, e.conv, e.msg)
           /\ Handled(e)

On_message_sent ==
    /\ Arrived("message:sent")
    /\ LET e == Head(inbox)
       IN  /\ messages' = OnMessageSent(messages, e.conv, e.msg)
           /\ Handled(e)

On_group_message_receive ==
    /\ Arrived("group:message:receive")
    /\ LET e == Head(inbox)
       IN  /\ messages' = OnGroupMessageReceive(messages, e.conv, e.msg)
           /\ Handled(e)

On_group_message_sent ==
    /\ Arrived("group:message:sent")
    /\ LET e == Head(inbox)
       IN  /\ messages' = OnGroupMessageSent(messages, e.conv, e.msg)
           /\ Handled(e)

On_group_ai_stream_start ==
    /\ Arrived("group:ai:stream-start")
    /\ LET e == Head(inbox)
       IN  /\ messages' = handleGroupAIStreamStart(messages, window, e.conv)
           /\ Handled(e)

On_group_ai_stream_chunk ==
    /\ Arrived("group:ai:stream-chunk")
    /\ LET e == Head(inbox)
       IN  /\ messages' = OnGroupAIStreamChunk(messages, e.conv, e.text)
           /\ Handled(e)

On_group_ai_stream_end ==
    /\ Arrived("group:ai:stream-end")
    /\ LET e == Head(inbox)
       IN  /\ messages' = OnGroupAIStreamEnd(messages, e.conv, e.msg)
           /\ Handled(e)

On_group_ai_error ==
    /\ Arrived("group:ai:error")
    /\ LET e == Head(inbox)
       IN  /\ messages' = handleGroupAIStreamError(messages, window, e.conv)
           /\ Handled(e)

On_ai_friend_user_message_sent ==
    /\ Arrived("ai-friend:user-message-sent")
    /\ LET e == Head(inbox)
       IN  /\ messages' = OnAIFriendUserMessageSent(messages, e.msg)
           /\ Handled(e)

On_ai_friend_stream_start ==
    /\ Arrived("ai-friend:stream-start")
    /\ LET e == Head(inbox)
       IN  /\ messages' = handleStreamStart(messages, window)
           /\ Handled(e)

On_ai_friend_stream_chunk ==
    /\ Arrived("ai-friend:stream-chunk")
    /\ LET e == Head(inbox)
       IN  /\ messages' = OnAIFriendStreamChunk(messages, e.text)
           /\ Handled(e)

On_ai_friend_stream_end ==
    /\ Arrived("ai-friend:stream-end")
    /\ LET e == Head(inbox)
       IN  /\ messages' = OnAIFriendStreamEnd(messages, e.msg)
           /\ Handled(e)

On_ai_friend_error ==
    /\ Arrived("ai-friend:error")
    /\ LET e == Head(inbox)
       IN  /\ messages' = handleStreamError(messages, window)
           /\ Handled(e)

(***************************************************************************)
(* chat-store.ts: the typing map.  An entry of a conversation's list is    *)
(* the typing user's id (the username shown beside it is not modelled).    *)
(***************************************************************************)
EmptyTyping == [c \in {} |-> <<>>]

GetTyping(typing, conversationId) ==
    IF conversationId \in DOMAIN typing THEN typing[conversationId] ELSE <<>>

IsTyping(typing, conversationId, userId) ==
    \E i \in Indices(GetTyping(typing, conversationId)) :
        GetTyping(typing, conversationId)[i] = userId

setTypingUser(typing, conversationId, userId) ==
    IF IsTyping(typing, conversationId, userId)
    THEN typing
    ELSE Put(typing, conversationId, Append(GetTyping(typing, conversationId), userId))

removeTypingUser(typing, conversationId, userId) ==
    LET Other(u) == u # userId
    IN  Put(typing, conversationId, SelectSeq(GetTyping(typing, conversationId), Other))

\* Keys of SocketService.typingTimeouts: fromUserId, or `${groupId}-${userId}`.
DirectKey(fromUserId) == <<fromUserId>>
GroupKey(groupId, userId) == <<groupId, userId>>

(***************************************************************************)
(* socket.service.ts: the connection.  A socket created by io() is         *)
(* "connecting" (the manager keeps trying), "connected", "disconnected"    *)
(* (the server closed it; it stays so until connect() is called on it) or  *)
(* "closed" (disconnect() was called on it).  The service's field `socket` *)
(* is an index into the sockets created, 0 for null.                       *)
(***************************************************************************)
MaxSockets == 2     \* sockets created in one run
MaxTimers == 2      \* reconnect timers pending at a time

MaxReconnectAttempts == 10
InitialReconnectDelay == 1000
MaxReconnectDelay == 30000

DisconnectReasons == {"io server disconnect", "transport close", "transport error"}

Friends == {"u1", "u2"}         \* the contacts fetchFriends has loaded
TypingSenders == {"u1", "u3"}   \* senders of user:typing: a contact and a stranger
GroupTypers == {"u2"}           \* members whose group:typing is received
GroupSender == "u2"             \* the member whose group messages are pushed

Min(a, b) == IF a <= b THEN a ELSE b

RECURSIVE Pow2(_)
Pow2(n) == IF n <= 0 THEN 1 ELSE 2 * Pow2(n - 1)

isConnected == socket # 0 /\ sockets[socket] = "connected"

\* What a step of the service is compared with: the service's state before it.
Snapshot ==
    [socket |-> socket, sockets |-> sockets,
     reconnectAttempts |-> reconnectAttempts, reconnectDelay |-> reconnectDelay,
     timers |-> timers, typingTimeouts |-> typingTimeouts, armed |-> armed]

\* The same for a step that touches the typing sets: also who was typing.
TypingSnapshot ==
    [socket |-> socket, sockets |-> sockets,
     reconnectAttempts |-> reconnectAttempts, reconnectDelay |-> reconnectDelay,
     timers |-> timers, typingTimeouts |-> typingTimeouts, armed |-> armed,
     typingUsers |-> typingUsers]

NoTimer == [armed |-> FALSE, stale |-> FALSE]

\* A pending reconnect timer; its delay is the last entry of run when it is
\* set.  stale is bookkeeping for the properties: whether a connect event or
\* a disconnect() call has happened since the timer was set.
Timer == [armed |-> TRUE, stale |-> FALSE]

Outdated(ts) == [i \in Indices(ts) |-> [ts[i] EXCEPT !.stale = TRUE]]

ConnStep(type, emits, timer, target, before) ==
    [type |-> type, emits |-> emits, timer |-> timer, target |-> target,
     before |-> before, toast |-> ""]

\* The step showed a toast with this title.
Toasting(step, title) == [step EXCEPT !.toast = title]

\* if (this.reconnectAttempts > 0) toast.success("Reconnected", ...)
ReconnectedToast(attempts) == IF attempts > 0 THEN "Reconnected" ELSE ""

\* if (this.reconnectAttempts === 0 || this.reconnectAttempts % 5 === 0)
\*     handleWebSocketError(error)
ErrorToast(attempts) == IF attempts = 0 \/ attempts % 5 = 0 THEN "Connection error" ELSE ""

DisconnectToast(reason) ==
    IF reason = "io server disconnect" THEN "Disconnected"
    ELSE IF reason \in {"transport close", "transport error"} THEN "Connection lost"
    ELSE ""

NoConnStep ==
    ConnStep("init", 0, NoTimer, 0,
             [socket |-> 0, sockets |-> <<>>, reconnectAttempts |-> 0,
              reconnectDelay |-> 1000, timers |-> <<>>,
              typingTimeouts |-> {}, armed |-> EmptyBag])

\* connect(): nothing when the current socket is connected, else a new socket
\* with its own handlers takes the place of the current one.
\* Faulty variant: no check of the current socket.
ConnectAlways(sock, socks) ==
    [socket |-> Len(socks) + 1, sockets |-> Append(socks, "connecting")]

Connect(sock, socks) ==
    IF sock # 0 /\ socks[sock] = "connected"
    THEN [socket |-> sock, sockets |-> socks]
    ELSE [socket |-> Len(socks) + 1, sockets |-> Append(socks, "connecting")]

connect ==
    /\ Len(Connect(socket, sockets).sockets) <= MaxSockets
    /\ socket' = Connect(socket, sockets).socket
    /\ sockets' = Connect(socket, sockets).sockets
    /\ lastC' = ConnStep("connect()", 0, NoTimer, 0, Snapshot)
    /\ UNCHANGED <<reconnectAttempts, reconnectDelay, timers, run, delays>>
    /\ UNCHANGED <<chatVars, typingVars, contactVars, windowVars, groupVars, resyncVars, notifyVars>>

\* Faulty variant: the map is cleared but the timers are not cancelled.
DisconnectKeepsTimers(s) ==
    [socket |-> 0,
     sockets |-> IF s.socket # 0 THEN [s.sockets EXCEPT ![s.socket] = "closed"]
                 ELSE s.sockets,
     reconnectAttempts |-> 0,
     typingTimeouts |-> {},
     armed |-> s.armed]

\* disconnect(): the fields as the call leaves them.
Disconnect(s) ==
    [socket |-> 0,
     sockets |-> IF s.socket # 0 THEN [s.sockets EXCEPT ![s.socket] = "closed"]
                 ELSE s.sockets,
     reconnectAttempts |-> 0,
     typingTimeouts |-> {},
     armed |-> s.armed (-) SetToBag(s.typingTimeouts)]

disconnect ==
    /\ socket' = Disconnect(Snapshot).socket
    /\ sockets' = Disconnect(Snapshot).sockets
    /\ reconnectAttempts' = Disconnect(Snapshot).reconnectAttempts
    /\ typingTimeouts' = Disconnect(Snapshot).typingTimeouts
    /\ armed' = Disconnect(Snapshot).armed
    /\ run' = <<>>
    /\ UNCHANGED delays
    /\ timers' = Outdated(timers)
    /\ lastC' = ConnStep("disconnect()", 0, NoTimer, 0, Snapshot)
    /\ UNCHANGED <<reconnectDelay, typingUsers>>
    /\ UNCHANGED <<chatVars, contactVars, windowVars, groupVars, resyncVars, notifyVars>>

\* Faulty variant: no upper limit.
ReconnectDelayUncapped(delay, attempt) == delay * Pow2(attempt - 1)

\* handleReconnect: the delay of attempt number `attempt` (counted from 1).
ReconnectDelay(delay, attempt) ==
    Min(delay * Pow2(attempt - 1), MaxReconnectDelay)

\* handleReconnect gives up without a timer once the cap is reached.
GivesUp == reconnectAttempts >= MaxReconnectAttempts

\* Bookkeeping for the properties: the delay before the last one, and the last.
Recent(ds, delay) == IF ds = <<>> THEN <<delay>> ELSE <<ds[Len(ds)], delay>>

handleReconnect ==
    IF GivesUp
    THEN UNCHANGED <<reconnectAttempts, timers, run, delays>>
    ELSE /\ reconnectAttempts' = reconnectAttempts + 1
         /\ timers' = Append(timers, Timer)
         /\ run' = Append(run, ReconnectDelay(reconnectDelay, reconnectAttempts + 1))
         /\ delays' = Recent(delays, ReconnectDelay(reconnectDelay, reconnectAttempts + 1))

\* The environment lets a failure arrive only while room is left for its timer.
RoomForTimer == GivesUp \/ Len(timers) < MaxTimers

\* "connect" of socket i.
On_connect(i) ==
    /\ sockets[i] = "connecting"
    /\ sockets' = [sockets EXCEPT ![i] = "connected"]
    /\ reconnectAttempts' = 0
    /\ reconnectDelay' = InitialReconnectDelay
    /\ run' = <<>>
    /\ delays' = <<>>
    /\ timers' = Outdated(timers)
    /\ lastC' = Toasting(ConnStep("connect", IF socket # 0 THEN 1 ELSE 0, NoTimer, 0, Snapshot),
                         ReconnectedToast(reconnectAttempts'))
    /\ UNCHANGED socket
    /\ UNCHANGED <<chatVars, typingVars, contactVars, windowVars, groupVars, resyncVars, notifyVars>>

\* "connect_error" of socket i: the manager keeps trying, the service adds
\* its own attempt.
On_connect_error(i) ==
    /\ sockets[i] = "connecting"
    /\ RoomForTimer
    /\ handleReconnect
    /\ lastC' = Toasting(ConnStep("connect_error", 0, NoTimer, 0, Snapshot),
                         ErrorToast(reconnectAttempts))
    /\ UNCHANGED <<socket, sockets, reconnectDelay>>
    /\ UNCHANGED <<chatVars, typingVars, contactVars, windowVars, groupVars, resyncVars, notifyVars>>

\* "disconnect" of socket i.  Only a disconnect by the server calls
\* handleReconnect; after a transport loss the manager reconnects by itself.
On_disconnect(i, reason) ==
    /\ sockets[i] = "connected"
    /\ IF reason = "io server disconnect"
       THEN /\ RoomForTimer
            /\ sockets' = [sockets EXCEPT ![i] = "disconnected"]
            /\ handleReconnect
            /\ lastC' = Toasting(ConnStep("disconnect", 0, NoTimer, 0, Snapshot),
                              DisconnectToast(reason))
       ELSE /\ sockets' = [sockets EXCEPT ![i] = "connecting"]
            /\ lastC' = Toasting(ConnStep("disconnect", 0, NoTimer, 0, Snapshot),
                              DisconnectToast(reason))
            /\ UNCHANGED <<reconnectAttempts, timers, run, delays>>
    /\ UNCHANGED <<socket, reconnectDelay>>
    /\ UNCHANGED <<chatVars, typingVars, contactVars, windowVars, groupVars, resyncVars, notifyVars>>

\* A timer of handleReconnect fires: this.socket?.connect().
ReconnectTimer(k) ==
    /\ timers' = [i \in 1..(Len(timers) - 1) |->
                    IF i < k THEN timers[i] ELSE timers[i + 1]]
    /\ sockets' = IF socket # 0 /\ sockets[socket] = "disconnected"
                  THEN [sockets EXCEPT ![socket] = "connecting"]
                  ELSE sockets
    /\ lastC' = ConnStep("timer", 0, timers[k], socket, Snapshot)
    /\ UNCHANGED <<socket, reconnectAttempts, reconnectDelay, run, delays>>
    /\ UNCHANGED <<chatVars, typingVars, contactVars, windowVars, groupVars, resyncVars, notifyVars>>

(***************************************************************************)
(* socket.service.ts: typing events.  They are delivered by a connected    *)
(* socket; each (re)starts the expiry timer of its key.                    *)
(***************************************************************************)
Delivering == \E i \in Indices(sockets) : sockets[i] = "connected"

\* Faulty variant: the timer set earlier for the key is left running.
RenewKeepsTimer(pending, timeouts, key) == pending (+) SetToBag({key})

\* clearTimeout(this.typingTimeouts.get(key)) if the map has the key, then
\* setTimeout(..., 3000): the timers pending afterwards.
Renew(pending, timeouts, key) ==
    (IF key \in timeouts THEN pending (-) SetToBag({key}) ELSE pending) (+) SetToBag({key})

On_user_typing(fromUserId) ==
    /\ Delivering
    /\ IF fromUserId \in DOMAIN friends
       THEN /\ typingUsers' = setTypingUser(typingUsers, fromUserId, fromUserId)
            /\ typingTimeouts' = typingTimeouts \cup {DirectKey(fromUserId)}
            /\ armed' = Renew(armed, typingTimeouts, DirectKey(fromUserId))
       ELSE UNCHANGED typingVars
    /\ lastC' = ConnStep("user:typing", 0, NoTimer, 0, TypingSnapshot)
    /\ UNCHANGED <<socket, sockets, reconnectAttempts, reconnectDelay, timers, run, delays>>
    /\ UNCHANGED <<chatVars, contactVars, windowVars, groupVars, resyncVars, notifyVars>>

On_group_typing(groupId, userId) ==
    /\ Delivering
    /\ typingUsers' = setTypingUser(typingUsers, groupId, userId)
    /\ typingTimeouts' = typingTimeouts \cup {GroupKey(groupId, userId)}
    /\ armed' = Renew(armed, typingTimeouts, GroupKey(groupId, userId))
    /\ lastC' = ConnStep("group:typing", 0, NoTimer, 0, TypingSnapshot)
    /\ UNCHANGED <<socket, sockets, reconnectAttempts, reconnectDelay, timers, run, delays>>
    /\ UNCHANGED <<chatVars, contactVars, windowVars, groupVars, resyncVars, notifyVars>>

\* The expiry timer of a key fires, 3 seconds after it was set.
TypingTimeout(key) ==
    /\ BagIn(key, armed)
    /\ typingUsers' = removeTypingUser(typingUsers, key[1], key[Len(key)])
    /\ typingTimeouts' = typingTimeouts \ {key}
    /\ armed' = armed (-) SetToBag({key})
    /\ lastC' = ConnStep("typing-timeout", 0, NoTimer, 0, TypingSnapshot)
    /\ UNCHANGED <<socket, sockets, reconnectAttempts, reconnectDelay, timers, run, delays>>
    /\ UNCHANGED <<chatVars, contactVars, windowVars, groupVars, resyncVars, notifyVars>>

(***************************************************************************)
(* chat-store.ts: clearMessages, addConversation, removeConversation,      *)
(* clearTypingUsers and clearAll.  No component of the repository calls    *)
(* them.  The service's typing timers are not the store's and stay.        *)
(***************************************************************************)
\* A step of the store, none of the service.
StoreStep == ConnStep("clear", 0, NoTimer, 0, Snapshot)

Cleared == Step("clear", NoChat, NoMsg, "", NoChat, <<>>)

clearMessages(conversationId) ==
    /\ messages' = Without(messages, conversationId)
    /\ last' = Cleared
    /\ UNCHANGED <<window, inbox, outbox, serverLog, fetches, seq, now, sent, loads, focus>>
    /\ UNCHANGED <<connVars, typingVars, contactVars, windowVars, groupVars, resyncVars, notifyVars>>

\* addConversation and removeConversation, of the conversations map.
AddConversation(conversationId, conversation) ==
    /\ conversations' = addConversation(conversations, conversationId, conversation)
    /\ UNCHANGED <<soundEnabled, audioUnlocked, retryToasts>>
    /\ UNCHANGED <<chatVars, connVars, typingVars, contactVars, windowVars, groupVars, resyncVars>>

RemoveConversation(conversationId) ==
    /\ conversations' = removeConversation(conversations, conversationId)
    /\ UNCHANGED <<soundEnabled, audioUnlocked, retryToasts>>
    /\ UNCHANGED <<chatVars, connVars, typingVars, contactVars, windowVars, groupVars, resyncVars>>

\* The service's timers are not the store's: they stay pending.
clearTypingUsers(conversationId) ==
    /\ typingUsers' = Without(typingUsers, conversationId)
    /\ lastC' = StoreStep
    /\ UNCHANGED <<typingTimeouts, armed>>
    /\ UNCHANGED <<socket, sockets, reconnectAttempts, reconnectDelay, timers, run, delays>>
    /\ UNCHANGED <<chatVars, contactVars, windowVars, groupVars, resyncVars, notifyVars>>

\* activeChat: null unmounts the window.
clearAll ==
    /\ Closed
    /\ messages' = EmptyStore
    /\ typingUsers' = EmptyTyping
    /\ last' = Cleared
    /\ lastC' = StoreStep
    /\ UNCHANGED <<inbox, outbox, serverLog, seq, now, sent, loads, focus>>
    /\ UNCHANGED <<typingTimeouts, armed>>
    /\ UNCHANGED <<socket, sockets, reconnectAttempts, reconnectDelay, timers, run, delays>>
    /\ conversations' = EmptyConversations
    /\ UNCHANGED <<soundEnabled, audioUnlocked, retryToasts>>
    /\ UNCHANGED <<contactVars, groupVars, resyncVars>>

(***************************************************************************)
(* socket.service.ts: presence events, written to the contact store.       *)
(***************************************************************************)
RECURSIVE ApplyStatuses(_, _)
ApplyStatuses(fs, statuses) ==
    IF statuses = <<>> THEN fs
    ELSE ApplyStatuses(updateOnlineStatus(fs, Head(statuses).userId, Head(statuses).status),
                       Tail(statuses))

StatusOf(userId, status) == [userId |-> userId, status |-> status]

On_user_status(userId, status) ==
    /\ Delivering
    /\ friends' = updateOnlineStatus(friends, userId, status)
    /\ lastP' = ContactStep("user:status", <<StatusOf(userId, status)>>, friends)
    /\ UNCHANGED <<chatVars, connVars, typingVars, windowVars, groupVars, resyncVars, notifyVars>>

On_user_status_batch(statuses) ==
    /\ Delivering
    /\ friends' = ApplyStatuses(friends, statuses)
    /\ lastP' = ContactStep("user:status-batch", statuses, friends)
    /\ UNCHANGED <<chatVars, connVars, typingVars, windowVars, groupVars, resyncVars, notifyVars>>

(***************************************************************************)
(* group-store.ts: the mute preference, and the asynchronous functions.    *)
(* Each call starts its own request, whatever is in flight already.        *)
(***************************************************************************)
Mute(groupId) ==
    /\ groupId \in DOMAIN userGroups
    /\ userGroups' = muteGroup(userGroups, groupId)
    /\ lastG' = Plain
    /\ UNCHANGED <<groupMembers, groupFetches>>
    /\ UNCHANGED <<chatVars, connVars, typingVars, contactVars, windowVars, resyncVars, notifyVars>>

Unmute(groupId) ==
    /\ groupId \in DOMAIN userGroups
    /\ userGroups' = unmuteGroup(userGroups, groupId)
    /\ lastG' = Plain
    /\ UNCHANGED <<groupMembers, groupFetches>>
    /\ UNCHANGED <<chatVars, connVars, typingVars, contactVars, windowVars, resyncVars, notifyVars>>

ToggleMute(groupId) ==
    /\ groupId \in DOMAIN userGroups
    /\ userGroups' = toggleMute(userGroups, groupId)
    /\ lastG' = Plain
    /\ UNCHANGED <<groupMembers, groupFetches>>
    /\ UNCHANGED <<chatVars, connVars, typingVars, contactVars, windowVars, resyncVars, notifyVars>>

(***************************************************************************)
(* notification-store.ts.  setSoundEnabled is the switch of                *)
(* NotificationSettings.  No component of the repository calls            *)
(* unlockAudio; it sets audioUnlocked once the silent audio has played.    *)
(***************************************************************************)
setSoundEnabled(enabled) ==
    /\ soundEnabled' = enabled
    /\ UNCHANGED <<audioUnlocked, retryToasts, conversations>>
    /\ UNCHANGED <<chatVars, connVars, typingVars, contactVars, windowVars, groupVars, resyncVars>>

unlockAudio ==
    /\ ~audioUnlocked
    /\ audioUnlocked' = TRUE
    /\ UNCHANGED <<soundEnabled, retryToasts, conversations>>
    /\ UNCHANGED <<chatVars, connVars, typingVars, contactVars, windowVars, groupVars, resyncVars>>

\* ChatPageClient's mount effect.
fetchUserGroups ==
    /\ Room(1)
    /\ groupFetches' = Started(groupFetches, GroupsRequest)
    /\ UNCHANGED <<userGroups, groupMembers, lastG>>
    /\ UNCHANGED <<chatVars, connVars, typingVars, contactVars, windowVars, resyncVars, notifyVars>>

\* The calls of fetchUserGroups that await their Promise.all are told apart
\* by a number: the smallest that no request in flight carries.
Calls == 1 .. MaxRequests

CallsAwaiting(reqs) ==
    {f.parent.call : f \in {q \in BagToSet(reqs) : q.kind = "members"}}

FreeCall(reqs) ==
    CHOOSE n \in Calls : /\ n \notin CallsAwaiting(reqs)
                         /\ \A m \in 1 .. (n - 1) : m \in CallsAwaiting(reqs)

\* groupsService.getGroups() answered: setGroups, then Promise.all of
\* fetchGroupMembers for every group of the list.  A settings dialog the new
\* roster brings back fetches the members of its group as well.
fetchUserGroupsLoaded(groups) ==
    /\ BagIn(GroupsRequest, groupFetches)
    /\ Room(Cardinality(groups) - 1 +
            Cardinality(Mounted(showGroupSettings, window, setGroups(groups))))
    /\ userGroups' = setGroups(groups)
    /\ groupFetches' =
            LET others == Ended(groupFetches, GroupsRequest)
            IN  others (+)
                SetToBag({MembersRequest(g, CallParent(FreeCall(others))) : g \in groups}) (+)
                DialogEffect(showGroupSettings, window, setGroups(groups))
    /\ lastG' = GroupStep("setGroups", "", "", FALSE, FALSE, FALSE, FALSE, MuteFlags(userGroups))
    /\ UNCHANGED groupMembers
    /\ UNCHANGED <<chatVars, connVars, typingVars, contactVars, windowVars, resyncVars, notifyVars>>

\* groupsService.getMembers(groupId) answered: setGroupMembers.  The call
\* that awaits the request has nothing left to write.
fetchGroupMembersLoaded(f, members) ==
    /\ BagIn(f, groupFetches)
    /\ f.kind = "members"
    /\ groupFetches' = Ended(groupFetches, f)
    /\ groupMembers' = SetEntry(groupMembers, f.group, members)
    /\ userGroups' = WithMembers(userGroups, f.group, members)
    /\ lastG' = GroupStep("setGroupMembers", f.group, "", window = f.group,
                          FALSE, FALSE, FALSE, MuteFlags(userGroups))
    /\ UNCHANGED <<chatVars, connVars, typingVars, contactVars, windowVars, resyncVars, notifyVars>>

(***************************************************************************)
(* A request of the group store fails.  The catch branch of the function   *)
(* writes nothing to the store, calls handleGroupError and throws the      *)
(* error on.  handleGroupError shows an error toast; the toast offers      *)
(* Retry if the error is retryable (a network error, or status 500, 502,   *)
(* 503 or 504) and the function passed a retry: fetchUserGroups,           *)
(* fetchGroupMembers, updateGroupDetails, addMember and removeMember do,   *)
(* createGroup, deleteGroup and leaveGroup do not.  A failed               *)
(* fetchGroupMembers call throws into the call that awaits it: addMember   *)
(* shows its own toast; the Promise.all of fetchUserGroups is rejected by  *)
(* the first of its calls that fails, fetchUserGroups shows its own toast, *)
(* and the calls still running are awaited by nothing.  Retry calls the    *)
(* store function again, with the arguments of the failed call, whatever   *)
(* the page shows by then.                                                 *)
(***************************************************************************)
MaxToasts == 2      \* error toasts with Retry on screen

RetryKinds == {"groups", "members", "updateGroup", "addMember", "removeMember"}

\* The call a Retry of f's own toast makes.
Retried(f) == IF f.kind = "members" THEN MembersRequest(f.group, NoParent) ELSE f

\* The call f's failure is thrown into, that shows a toast of its own.
Awaiting(f) ==
    IF f.kind # "members" \/ f.parent = NoParent THEN {}
    ELSE IF f.parent.kind = "addMember"
         THEN {GroupRequest("addMember", f.group, f.parent.user)}
         ELSE {GroupsRequest}

\* error.retryable && onRetry
ErrorToasts(f, retryable) ==
    IF retryable
    THEN SetToBag((IF f.kind \in RetryKinds THEN {Retried(f)} ELSE {}) \cup Awaiting(f))
    ELSE EmptyBag

\* The requests in flight once the Promise.all of call n has been rejected.
Rejected(reqs, n) ==
    LET Detached(q) == IF q.kind = "members" /\ q.parent = CallParent(n)
                       THEN MembersRequest(q.group, NoParent) ELSE q
    IN  [r \in {Detached(q) : q \in BagToSet(reqs)} |->
            CopiesIn(r, reqs) +
            (IF r.kind = "members" /\ r.parent = NoParent
             THEN CopiesIn(MembersRequest(r.group, CallParent(n)), reqs) ELSE 0)]

groupFetchFailed(f, retryable) ==
    /\ BagIn(f, groupFetches)
    /\ BagCardinality(retryToasts (+) ErrorToasts(f, retryable)) <= MaxToasts
    /\ groupFetches' =
            IF f.kind = "members" /\ f.parent.kind = "fetchUserGroups"
            THEN Rejected(Ended(groupFetches, f), f.parent.call)
            ELSE Ended(groupFetches, f)
    /\ retryToasts' = retryToasts (+) ErrorToasts(f, retryable)
    /\ UNCHANGED <<userGroups, groupMembers, lastG>>
    /\ UNCHANGED <<soundEnabled, audioUnlocked, conversations>>
    /\ UNCHANGED <<chatVars, connVars, typingVars, contactVars, windowVars, resyncVars>>

\* The toast's action: onClick: onRetry.  The toast leaves the screen.
Retry(f) ==
    /\ BagIn(f, retryToasts)
    /\ Room(1)
    /\ retryToasts' = Ended(retryToasts, f)
    /\ groupFetches' = Started(groupFetches, f)
    /\ UNCHANGED <<userGroups, groupMembers, lastG>>
    /\ UNCHANGED <<soundEnabled, audioUnlocked, conversations>>
    /\ UNCHANGED <<chatVars, connVars, typingVars, contactVars, windowVars, resyncVars>>

\* duration: 6000: the toast leaves the screen unused.
toastExpired(f) ==
    /\ BagIn(f, retryToasts)
    /\ retryToasts' = Ended(retryToasts, f)
    /\ UNCHANGED <<soundEnabled, audioUnlocked, conversations>>
    /\ UNCHANGED <<chatVars, connVars, typingVars, contactVars, windowVars, groupVars, resyncVars>>

\* The create-group dialog: createGroup, and its answer with the id the
\* server gave the new group: addGroup.
createGroup ==
    /\ Room(1)
    /\ groupFetches' = Started(groupFetches, GroupRequest("createGroup", "", ""))
    /\ UNCHANGED <<userGroups, groupMembers, lastG>>
    /\ UNCHANGED <<chatVars, connVars, typingVars, contactVars, windowVars, resyncVars, notifyVars>>

createGroupLoaded(groupId) ==
    /\ BagIn(GroupRequest("createGroup", "", ""), groupFetches)
    /\ groupFetches' = Ended(groupFetches, GroupRequest("createGroup", "", "")) (+)
                            DialogEffect(showGroupSettings, window, addGroup(userGroups, groupId))
    /\ userGroups' = addGroup(userGroups, groupId)
    /\ lastG' = Plain
    /\ UNCHANGED groupMembers
    /\ UNCHANGED <<chatVars, connVars, typingVars, contactVars, windowVars, resyncVars, notifyVars>>

(***************************************************************************)
(* GroupSettings: the dialog of the group shown.  ChatWindow offers the    *)
(* settings button to an admin of the group and renders the dialog while   *)
(* showGroupSettings is set and the group is in the roster.  The dialog    *)
(* fetches the members when it is mounted.  Its handlers call              *)
(* updateGroupDetails, addMember, removeMember and deleteGroup for an      *)
(* admin only, and leaveGroup for every member; after the group was left   *)
(* or deleted the handler closes the dialog and the chat window.           *)
(***************************************************************************)
\* isUserAdmin(conversation.id, user.id), of ChatWindow and of the dialog
isAdmin == window # NoChat /\ Kind(window) = "group" /\ isUserAdmin(groupMembers, window, Me)

\* The settings button: setShowGroupSettings(true).
openGroupSettings ==
    /\ isAdmin
    /\ ~showGroupSettings
    /\ showGroupSettings' = TRUE
    /\ Room(Cardinality(Mounted(TRUE, window, userGroups)))
    /\ groupFetches' = groupFetches (+) DialogEffect(TRUE, window, userGroups)
    /\ UNCHANGED <<hasMoreMessages, isLoadingHistory>>
    /\ UNCHANGED <<userGroups, groupMembers, lastG>>
    /\ UNCHANGED <<chatVars, connVars, typingVars, contactVars, resyncVars, notifyVars>>

\* The dialog's onOpenChange(false): setShowGroupSettings(false).
closeGroupSettings ==
    /\ SettingsShown
    /\ showGroupSettings' = FALSE
    /\ UNCHANGED <<hasMoreMessages, isLoadingHistory>>
    /\ UNCHANGED <<chatVars, connVars, typingVars, contactVars, groupVars, resyncVars, notifyVars>>

\* onSubmit, handleAddMember, handleRemoveMember, handleLeaveGroup,
\* handleDeleteGroup: all but handleLeaveGroup return at once unless the
\* user is an admin of the group; then the request to the server.
GroupSettingsRequest(kind, userId) ==
    /\ SettingsShown
    /\ kind = "leaveGroup" \/ isAdmin
    /\ Room(1)
    /\ groupFetches' = Started(groupFetches, GroupRequest(kind, window, userId))
    /\ UNCHANGED <<userGroups, groupMembers, lastG>>
    /\ UNCHANGED <<chatVars, connVars, typingVars, contactVars, windowVars, resyncVars, notifyVars>>

addMember(userId) == GroupSettingsRequest("addMember", userId)

removeMember(userId) == GroupSettingsRequest("removeMember", userId)

leaveGroup == GroupSettingsRequest("leaveGroup", "")

\* onSubmit of the dialog's form
updateGroupDetails == GroupSettingsRequest("updateGroup", "")

deleteGroup == GroupSettingsRequest("deleteGroup", "")

\* groupsService.updateGroup answered: updateGroup with the group it returns.
updateGroupDetailsLoaded(f, updates) ==
    /\ BagIn(f, groupFetches)
    /\ f.kind = "updateGroup"
    /\ groupFetches' = Ended(groupFetches, f)
    /\ userGroups' = updateGroup(userGroups, f.group, updates)
    /\ lastG' = GroupStep("updateGroup", f.group, "", window = f.group,
                          FALSE, FALSE, FALSE, MuteFlags(userGroups))
    /\ UNCHANGED groupMembers
    /\ UNCHANGED <<chatVars, connVars, typingVars, contactVars, windowVars, resyncVars, notifyVars>>

\* groupsService.addMember answered: addMember fetches the members again
\* and awaits them.
addMemberDone(f) ==
    /\ BagIn(f, groupFetches)
    /\ f.kind = "addMember"
    /\ groupFetches' = Started(Ended(groupFetches, f),
                               MembersRequest(f.group, AddMemberParent(f.user)))
    /\ UNCHANGED <<userGroups, groupMembers, lastG>>
    /\ UNCHANGED <<chatVars, connVars, typingVars, contactVars, windowVars, resyncVars, notifyVars>>

\* removeMember answered: removeGroupMember.
removeMemberDone(f) ==
    /\ BagIn(f, groupFetches)
    /\ f.kind = "removeMember"
    /\ groupFetches' = Ended(groupFetches, f)
    /\ groupMembers' = removeGroupMember(groupMembers, f.group, f.user)
    /\ userGroups' = WithMembers(userGroups, f.group,
                                 OtherMembers(groupMembers, f.group, f.user))
    /\ lastG' = Plain
    /\ UNCHANGED <<chatVars, connVars, typingVars, contactVars, windowVars, resyncVars, notifyVars>>

\* leaveGroup or deleteGroup answered: removeGroup.  The handler that
\* awaited it goes on in the same task: onOpenChange(false), then
\* onLeftGroup / onGroupDeleted, which resets showGroupSettings and calls
\* onClose, setActiveChat(null), whatever the window shows.
removeGroupDone(f) ==
    /\ BagIn(f, groupFetches)
    /\ f.kind \in {"leaveGroup", "deleteGroup"}
    /\ groupFetches' = Ended(groupFetches, f)
    /\ userGroups' = removeGroup(userGroups, f.group)
    /\ groupMembers' = Without(groupMembers, f.group)
    /\ lastG' = Plain
    /\ Closed
    /\ UNCHANGED <<messages, inbox, outbox, serverLog, seq, now, sent, last, loads, focus>>
    /\ UNCHANGED <<connVars, typingVars, contactVars, resyncVars, notifyVars>>

(***************************************************************************)
(* group-store.ts: functions of the store that no component of the         *)
(* repository calls.                                                       *)
(***************************************************************************)
updateGroupUnreadCount(groupId, count) ==
    /\ groupId \in DOMAIN userGroups
    /\ userGroups' = updateUnreadCount(userGroups, groupId, count)
    /\ lastG' = Plain
    /\ UNCHANGED <<groupMembers, groupFetches>>
    /\ UNCHANGED <<chatVars, connVars, typingVars, contactVars, windowVars, resyncVars, notifyVars>>

\* [...existing, member]: the member is appended, whether or not the list
\* holds an entry of the user.
addGroupMember(groupId, member) ==
    /\ Len(MembersOf(groupMembers, groupId)) < MaxMembers
    /\ groupMembers' = SetEntry(groupMembers, groupId,
                                Append(MembersOf(groupMembers, groupId), member))
    /\ userGroups' = WithMembers(userGroups, groupId,
                                 Append(MembersOf(groupMembers, groupId), member))
    /\ lastG' = Plain
    /\ UNCHANGED groupFetches
    /\ UNCHANGED <<chatVars, connVars, typingVars, contactVars, windowVars, resyncVars, notifyVars>>

clearAllGroups ==
    /\ userGroups' = EmptyGroups
    /\ groupMembers' = EmptyMembers
    /\ lastG' = Plain
    /\ UNCHANGED groupFetches
    /\ UNCHANGED <<chatVars, connVars, typingVars, contactVars, windowVars, resyncVars, notifyVars>>

(***************************************************************************)
(* socket.service.ts: the group membership handlers.                       *)
(***************************************************************************)
\* "group:member:added": the members are fetched again; a group that is not
\* in the roster is new to the user: playGroupInviteSound is called and the
\* roster is fetched again.
On_group_member_added(groupId) ==
    /\ Delivering
    /\ Room(IF groupId \in DOMAIN userGroups THEN 1 ELSE 2)
    /\ groupFetches' =
            IF groupId \in DOMAIN userGroups
            THEN Started(groupFetches, MembersRequest(groupId, NoParent))
            ELSE Started(Started(groupFetches, MembersRequest(groupId, NoParent)),
                         GroupsRequest)
    /\ lastG' = GroupStep("group:member:added", groupId, "", window = groupId,
                          groupId \notin DOMAIN userGroups
                              /\ playGroupInviteSound(soundEnabled, audioUnlocked),
                          FALSE, FALSE, MuteFlags(userGroups))
    /\ UNCHANGED <<userGroups, groupMembers>>
    /\ UNCHANGED <<chatVars, connVars, typingVars, contactVars, windowVars, resyncVars, notifyVars>>

\* "group:member:removed": the current user's removal takes the group off
\* the roster; another member's removal takes them off the member list.
On_group_member_removed(groupId, userId) ==
    /\ Delivering
    /\ IF userId = Me
       THEN /\ userGroups' = removeGroup(userGroups, groupId)
            /\ groupMembers' = IF groupId \in DOMAIN userGroups
                               THEN Without(groupMembers, groupId) ELSE groupMembers
            /\ lastG' = GroupStep("group:member:removed", groupId, userId, window = groupId,
                                  FALSE, groupId \in DOMAIN userGroups, FALSE, EmptyGroups)
       ELSE /\ groupMembers' = removeGroupMember(groupMembers, groupId, userId)
            /\ userGroups' = WithMembers(userGroups, groupId,
                                         OtherMembers(groupMembers, groupId, userId))
            /\ lastG' = GroupStep("group:member:removed", groupId, userId, window = groupId,
                                  FALSE, FALSE, FALSE, EmptyGroups)
    /\ UNCHANGED groupFetches
    /\ UNCHANGED <<chatVars, connVars, typingVars, contactVars, windowVars, resyncVars, notifyVars>>

\* "group:deleted": the group leaves the roster, and the chat window is
\* closed if it shows the group.
On_group_deleted(groupId) ==
    /\ Delivering
    /\ userGroups' = removeGroup(userGroups, groupId)
    /\ groupMembers' = Without(groupMembers, groupId)
    /\ lastG' = GroupStep("group:deleted", groupId, "", window = groupId,
                          FALSE, TRUE, FALSE, EmptyGroups)
    /\ IF window = groupId
       THEN Closed
       ELSE UNCHANGED <<window, fetches, windowVars>>
    /\ UNCHANGED groupFetches
    /\ UNCHANGED <<messages, inbox, outbox, serverLog, seq, now, sent, last, loads, focus>>
    /\ UNCHANGED <<connVars, typingVars, contactVars, resyncVars, notifyVars>>

(***************************************************************************)
(* contact-store.ts: fetchFriends.  Every call sets loading and starts its *)
(* own request.  When the request is answered the list replaces the map;   *)
(* the function then awaits the import of the socket service, and only     *)
(* after it tests the connection, asks for the statuses of the friends if  *)
(* the list is not empty and the socket is connected at that moment, and   *)
(* resets loading.  checked holds the ids named in the user:check-status   *)
(* requests emitted so far, fetched the list of the last call that ran to  *)
(* its end.                                                                *)
(***************************************************************************)
FriendLists == SUBSET Friends

FriendsRequest == [st |-> "req", ids |-> {}]

FriendsLoaded(list) == [st |-> "loaded", ids |-> list]

fetchFriends ==
    /\ BagCardinality(friendFetches) < MaxRequests
    /\ loading' = TRUE
    /\ friendFetches' = Started(friendFetches, FriendsRequest)
    /\ UNCHANGED <<checked, fetched, contactVars>>
    /\ UNCHANGED <<chatVars, connVars, typingVars, windowVars, groupVars, notifyVars>>

\* socketService.checkUserStatuses(friendIds): this.socket?.emit(...)
checkUserStatuses(userIds) == IF socket # 0 THEN userIds ELSE {}

\* friendsService.getFriends() answered: setFriends.
fetchFriendsLoaded(list) ==
    /\ BagIn(FriendsRequest, friendFetches)
    /\ friends' = setFriendsMap(list)
    /\ lastP' = ContactStep("fetchFriends", <<>>, friends)
    /\ friendFetches' = Started(Ended(friendFetches, FriendsRequest), FriendsLoaded(list))
    /\ UNCHANGED <<loading, checked, fetched>>
    /\ UNCHANGED <<chatVars, connVars, typingVars, windowVars, groupVars, notifyVars>>

\* After the import: the status request, and finally { loading: false }.
fetchFriendsChecked(f) ==
    /\ BagIn(f, friendFetches)
    /\ f.st = "loaded"
    /\ friendFetches' = Ended(friendFetches, f)
    /\ checked' = checked \cup
            (IF f.ids # {} /\ isConnected THEN checkUserStatuses(f.ids) ELSE {})
    /\ fetched' = f.ids
    /\ loading' = FALSE
    /\ UNCHANGED contactVars
    /\ UNCHANGED <<chatVars, connVars, typingVars, windowVars, groupVars, notifyVars>>

\* The request fails: the error is logged and thrown on, loading is reset.
fetchFriendsFailed ==
    /\ BagIn(FriendsRequest, friendFetches)
    /\ friendFetches' = Ended(friendFetches, FriendsRequest)
    /\ loading' = FALSE
    /\ UNCHANGED <<checked, fetched, contactVars>>
    /\ UNCHANGED <<chatVars, connVars, typingVars, windowVars, groupVars, notifyVars>>

(***************************************************************************)
(* socket.service.ts: "friend:accepted".  The user who accepted the        *)
(* request becomes a contact (addFriend); no status is asked for.          *)
(***************************************************************************)
addFriend(fs, userId) == SetEntry(fs, userId, Contact("offline", 0))

On_friend_accepted(userId) ==
    /\ Delivering
    /\ friends' = addFriend(friends, userId)
    /\ lastP' = ContactStep("friend:accepted", <<>>, friends)
    /\ UNCHANGED <<chatVars, connVars, typingVars, windowVars, groupVars, resyncVars, notifyVars>>

(***************************************************************************)
(* contact-store.ts: functions of the store that no component of the       *)
(* repository calls.                                                       *)
(***************************************************************************)
removeFriend(userId) ==
    /\ friends' = Without(friends, userId)
    /\ lastP' = ContactStep("removeFriend", <<>>, friends)
    /\ UNCHANGED <<chatVars, connVars, typingVars, windowVars, groupVars, resyncVars, notifyVars>>

updateContactUnreadCount(userId, count) ==
    /\ friends' = updateUnreadCount(friends, userId, count)
    /\ lastP' = ContactStep("updateUnreadCount", <<>>, friends)
    /\ UNCHANGED <<chatVars, connVars, typingVars, windowVars, groupVars, resyncVars, notifyVars>>

setLoading(value) ==
    /\ loading' = value
    /\ UNCHANGED <<checked, fetched, friendFetches, contactVars>>
    /\ UNCHANGED <<chatVars, connVars, typingVars, windowVars, groupVars, notifyVars>>

clearAllContacts ==
    /\ friends' = EmptyFriends
    /\ lastP' = ContactStep("clearAll", <<>>, friends)
    /\ loading' = FALSE
    /\ UNCHANGED <<checked, fetched, friendFetches>>
    /\ UNCHANGED <<chatVars, connVars, typingVars, windowVars, groupVars, notifyVars>>

(***************************************************************************)
(* The socket service and the stores it writes, after construction: no     *)
(* socket, counters at their initial values, empty maps.                   *)
(***************************************************************************)
ConnStart(fs, socks, sock) ==
    /\ socket = sock
    /\ sockets = socks
    /\ reconnectAttempts = 0
    /\ reconnectDelay = InitialReconnectDelay
    /\ timers = <<>>
    /\ run = <<>>
    /\ delays = <<>>
    /\ lastC = NoConnStep
    /\ typingUsers = EmptyTyping
    /\ typingTimeouts = {}
    /\ armed = EmptyBag
    /\ friends = fs
    /\ lastP = ContactStep("init", <<>>, fs)
    /\ loading = FALSE
    /\ checked = {}
    /\ friendFetches = EmptyBag
    /\ fetched = {}
    /\ soundEnabled = TRUE
    /\ audioUnlocked = FALSE

\* The group store with the given roster and member lists, nothing in flight.
GroupStart(gs, gm) ==
    /\ userGroups = gs
    /\ groupMembers = gm
    /\ groupFetches = EmptyBag
    /\ lastG = NoGroupStep
    /\ retryToasts = EmptyBag

ServiceStart(fs, socks, sock) ==
    /\ ConnStart(fs, socks, sock)
    /\ GroupStart(EmptyGroups, EmptyMembers)

ServiceInit == ServiceStart(EmptyFriends, <<>>, 0)

\* The same with the socket created by connect() and connected.
ServiceLive == ServiceStart(EmptyFriends, <<"connected">>, 1)

(***************************************************************************)
(* Specification                                                           *)
(***************************************************************************)
ChatIdle(c) ==
    /\ messages = EmptyStore
    /\ window = NoChat
    /\ inbox = <<>>
    /\ outbox = [d \in Convs |-> <<>>]
    /\ serverLog = [d \in Convs |-> <<>>]
    /\ fetches = EmptyBag
    /\ seq = 0
    /\ now = 1
    /\ sent = 0
    /\ loads = 0
    /\ focus = c
    /\ last = Step("init", NoChat, NoMsg, "", NoChat, <<>>)
    /\ hasMoreMessages = TRUE
    /\ isLoadingHistory = FALSE
    /\ showGroupSettings = FALSE
    /\ conversations = EmptyConversations

Init ==
    /\ \E c \in Convs : ChatIdle(c)
    /\ ServiceLive

\* The conversations the user opens in a run: the one the events belong to.
Shown == {focus}

User ==
    \/ \E c \in Shown : setActiveChat(c)
    \/ onClose
    \/ \E content \in Contents, elapsed \in Elapsed : handleSendMessage(content, elapsed)

History ==
    \/ \E f \in BagToSet(fetches) : HistoryResponse(f)
    \/ \E f \in BagToSet(fetches) : loadInitialMessages(f)
    \/ \E f \in BagToSet(fetches) : loadInitialMessagesFailed(f)

Server ==
    \/ \E c \in Convs : ServerAck(c)
    \/ \E c \in Convs : ServerPush(c, PushContent)
    \/ \E c \in Convs : ServerStreamStart(c)
    \/ \E c \in Convs, fullResponse \in Responses : ServerStreamChunk(c, fullResponse)
    \/ \E c \in Convs : ServerStreamEnd(c, FinalContent)
    \/ \E c \in Convs : ServerStreamError(c)

Socket ==
    \/ On_message_receive
    \/ On_message_sent
    \/ On_group_message_receive
    \/ On_group_message_sent
    \/ On_group_ai_stream_start
    \/ On_group_ai_stream_chunk
    \/ On_group_ai_stream_end
    \/ On_group_ai_error
    \/ On_ai_friend_user_message_sent
    \/ On_ai_friend_stream_start
    \/ On_ai_friend_stream_chunk
    \/ On_ai_friend_stream_end
    \/ On_ai_friend_error

\* The member request the page starts for a group writes the group store
\* only; its answer is left to the specifications about the groups.
Next == User \/ History \/ Server \/ Socket

Spec == Init /\ [][Next]_vars

(***************************************************************************)
(* A live session: the conversation has been opened and its (empty)        *)
(* history loaded; from then on only live traffic is handled.  The window  *)
(* may be closed; opening it again would start another history load, which *)
(* is left to Spec.                                                        *)
(***************************************************************************)
WindowLoaded ==
    /\ focus \in Convs
    /\ messages = setMessages(EmptyStore, focus, <<>>)
    /\ window = focus
    /\ inbox = <<>>
    /\ outbox = [c \in Convs |-> <<>>]
    /\ serverLog = [c \in Convs |-> <<>>]
    /\ fetches = EmptyBag
    /\ seq = 0
    /\ now = 1
    /\ sent = 0
    /\ loads = 1
    /\ last = Step("history", focus, NoMsg, "", focus, <<>>)
    /\ hasMoreMessages = FALSE
    /\ isLoadingHistory = FALSE
    /\ showGroupSettings = FALSE
    /\ conversations = EmptyConversations

InitLive ==
    /\ WindowLoaded
    /\ ServiceLive

\* Sends that are at least a millisecond apart.
Sends == \E content \in Contents : handleSendMessage(content, 1)

\* The window stays open.
NextLive == Sends \/ Server \/ Socket

SpecLive == InitLive /\ [][NextLive]_vars

(***************************************************************************)
(* Sends and their acknowledgements only.                                  *)
(***************************************************************************)
Acks == \E c \in Convs : ServerAck(c)

AckHandlers ==
    \/ On_message_sent
    \/ On_group_message_sent
    \/ On_ai_friend_user_message_sent

\* Sends at any pace: two of them may fall into the same millisecond.
Bursts == \E content \in Contents, elapsed \in Elapsed : handleSendMessage(content, elapsed)

NextSend == Bursts \/ Acks \/ AckHandlers

SpecSend == InitLive /\ [][NextSend]_vars

\* The live conversation with sends at any pace and a window that may be
\* closed at any time.
NextLiveBursts == onClose \/ Bursts \/ Server \/ Socket

SpecLiveBursts == InitLive /\ [][NextLiveBursts]_vars

(***************************************************************************)
(* The connection: connect() and disconnect() called in any state, the     *)
(* events of the sockets created, the reconnect timers, and typing events  *)
(* with their expiry timers.  The contacts have been loaded.               *)
(***************************************************************************)
InitConn ==
    /\ ChatIdle(DirectId)
    /\ ServiceStart(setFriendsMap(Friends), <<>>, 0)

SocketEvents ==
    \/ \E i \in Indices(sockets) : On_connect(i)
    \/ \E i \in Indices(sockets) : On_connect_error(i)
    \/ \E i \in Indices(sockets), reason \in DisconnectReasons : On_disconnect(i, reason)

Typing ==
    \/ \E fromUserId \in TypingSenders : On_user_typing(fromUserId)
    \/ \E userId \in GroupTypers : On_group_typing(GroupId, userId)
    \/ \E key \in BagToSet(armed) : TypingTimeout(key)

NextConn ==
    \/ connect
    \/ disconnect
    \/ SocketEvents
    \/ \E k \in Indices(timers) : ReconnectTimer(k)
    \/ Typing

SpecConn == InitConn /\ [][NextConn]_vars

(***************************************************************************)
(* Typing signals and messages of the same participants on a connected     *)
(* socket.                                                                 *)
(***************************************************************************)
InitTyping ==
    /\ \E c \in {DirectId, GroupId} : ChatIdle(c)
    /\ ServiceStart(setFriendsMap(Friends), <<"connected">>, 1)

Pushes == \E c \in Convs : ServerPush(c, PushContent)

TypingClears ==
    \/ \E c \in {DirectId, GroupId} : clearTypingUsers(c)
    \/ clearAll

NextTyping ==
    \/ Typing
    \/ TypingClears
    \/ Pushes
    \/ On_message_receive
    \/ On_group_message_receive

SpecTyping == InitTyping /\ [][NextTyping]_vars

(***************************************************************************)
(* History: a window has just been opened for a conversation whose history *)
(* the server may already hold, and its first request is in flight.  The   *)
(* user may switch to any other conversation, close the window and scroll  *)
(* up; the server pushes messages of the other participants.               *)
(***************************************************************************)
OldMessage == Msg(ServerId(0), "old", FALSE, FALSE)

InitHistory ==
    /\ focus \in {DirectId, GroupId}
    /\ messages = EmptyStore
    /\ window = focus
    /\ inbox = <<>>
    /\ outbox = [c \in Convs |-> <<>>]
    /\ serverLog \in {[c \in Convs |-> IF c = focus THEN log ELSE <<>>] :
                        log \in {<<>>, <<OldMessage>>}}
    /\ fetches = SetToBag({Fetch(focus, "req", <<>>, "", TRUE)})
    /\ seq = 0
    /\ now = 1
    /\ sent = 0
    /\ loads = 0
    /\ last = Step("init", NoChat, NoMsg, "", NoChat, <<>>)
    /\ hasMoreMessages = TRUE
    /\ isLoadingHistory = TRUE
    /\ showGroupSettings = FALSE
    /\ ConnStart(EmptyFriends, <<"connected">>, 1)
    /\ userGroups = EmptyGroups
    /\ groupMembers = EmptyMembers
    /\ groupFetches = IF Kind(focus) = "group"
                      THEN SetToBag({MembersRequest(focus, NoParent)}) ELSE EmptyBag
    /\ lastG = NoGroupStep
    /\ retryToasts = EmptyBag
    /\ conversations = EmptyConversations

Paging ==
    \/ handleScroll
    \/ \E f \in BagToSet(fetches) : PageResponse(f)
    \/ \E f \in BagToSet(fetches) : handleScrollLoaded(f)
    \/ \E f \in BagToSet(fetches) : handleScrollFailed(f)

NextHistory ==
    \/ \E c \in Convs : setActiveChat(c)
    \/ onClose
    \/ History
    \/ Paging
    \/ Pushes
    \/ On_message_receive
    \/ On_group_message_receive

SpecHistory == InitHistory /\ [][NextHistory]_vars

(***************************************************************************)
(* Page load: ChatPageClient mounts, which connects the socket (useSocket) *)
(* and fetches the contacts, in either order.                              *)
(***************************************************************************)
InitResync ==
    /\ ChatIdle(DirectId)
    /\ ServiceInit

Contacts ==
    \/ fetchFriends
    \/ \E list \in FriendLists : fetchFriendsLoaded(list)
    \/ \E f \in BagToSet(friendFetches) : fetchFriendsChecked(f)
    \/ fetchFriendsFailed


NextResync ==
    \/ Contacts
    \/ \E userId \in Friends : On_friend_accepted(userId)
    \/ connect
    \/ disconnect
    \/ \E i \in Indices(sockets) : On_connect(i)

SpecResync == InitResync /\ [][NextResync]_vars

(***************************************************************************)
(* Groups: the roster, the mute preference and the membership events on a  *)
(* connected socket; the group's window may be opened and closed.          *)
(***************************************************************************)
InitGroups ==
    /\ ChatIdle(GroupId)
    /\ ServiceStart(EmptyFriends, <<"connected">>, 1)

\* The answers to the member requests.
Members ==
    \/ \E f \in BagToSet(groupFetches), members \in MemberLists :
            fetchGroupMembersLoaded(f, members)
    \/ \E f \in BagToSet(groupFetches) : groupFetchFailed(f, FALSE)

\* The failures whose toast offers Retry, and what becomes of the toast.
Retries ==
    \/ \E f \in BagToSet(groupFetches) : groupFetchFailed(f, TRUE)
    \/ \E f \in BagToSet(retryToasts) : Retry(f)
    \/ \E f \in BagToSet(retryToasts) : toastExpired(f)

\* The groups the server holds for the user in this specification.
Listed == {GroupId}

Roster ==
    \/ fetchUserGroups
    \/ \E groups \in SUBSET Listed : fetchUserGroupsLoaded(groups)
    \/ Members
    \/ createGroup
    \/ \E g \in Listed : createGroupLoaded(g)

GroupSettings ==
    \/ openGroupSettings
    \/ closeGroupSettings
    \/ updateGroupDetails
    \/ \E userId \in GroupUsers : addMember(userId)
    \/ \E userId \in GroupUsers : removeMember(userId)
    \/ leaveGroup
    \/ deleteGroup
    \/ \E f \in BagToSet(groupFetches), updates \in GroupUpdates :
            updateGroupDetailsLoaded(f, updates)
    \/ \E f \in BagToSet(groupFetches) : addMemberDone(f)
    \/ \E f \in BagToSet(groupFetches) : removeMemberDone(f)
    \/ \E f \in BagToSet(groupFetches) : removeGroupDone(f)

Preferences ==
    \/ \E g \in Groups : Mute(g)
    \/ \E g \in Groups : Unmute(g)
    \/ \E g \in Groups : ToggleMute(g)

\* The switch of NotificationSettings.
Sounds == \E enabled \in BOOLEAN : setSoundEnabled(enabled)

GroupEvents ==
    \/ \E g \in Listed : On_group_member_added(g)
    \/ \E g \in Listed, u \in {Me, GroupSender} : On_group_member_removed(g, u)
    \/ \E g \in Listed : On_group_deleted(g)

\* The contact list offers the groups of the roster.
OpenGroup == GroupId \in DOMAIN userGroups /\ setActiveChat(GroupId)

NextGroups ==
    \/ Roster
    \/ Retries
    \/ GroupSettings
    \/ Preferences
    \/ GroupEvents
    \/ OpenGroup
    \/ onClose

SpecGroups == InitGroups /\ [][NextGroups]_vars

(***************************************************************************)
(* The roster requests alone, with both groups on the server: the calls of *)
(* fetchGroupMembers that one fetchUserGroups call awaits together, their  *)
(* failures and the toasts.                                                *)
(***************************************************************************)
NextRoster ==
    \/ fetchUserGroups
    \/ \E groups \in SUBSET Groups : fetchUserGroupsLoaded(groups)
    \/ Members
    \/ Retries

SpecRoster == InitGroups /\ [][NextRoster]_vars

(***************************************************************************)
(* Group notifications: the roster has been loaded with the group and its  *)
(* members; the user mutes and unmutes it, opens and closes its window,    *)
(* and the group's members push messages.                                  *)
(***************************************************************************)
\* The user is the admin of the groups loaded.
LoadedMembers == <<Member(Me, TRUE), Member(GroupSender, FALSE)>>

LoadedGroups ==
    [g \in Groups |-> GroupEntry(ServerName, FALSE, 0, LoadedMembers)]

InitNotify ==
    /\ ChatIdle(GroupId)
    /\ ConnStart(EmptyFriends, <<"connected">>, 1)
    /\ GroupStart(LoadedGroups, [g \in Groups |-> LoadedMembers])

NextNotify ==
    \/ Members
    \/ Retries
    \/ Preferences
    \/ Sounds
    \/ OpenGroup
    \/ onClose
    \/ Pushes
    \/ On_group_message_receive

SpecNotify == InitNotify /\ [][NextNotify]_vars

(***************************************************************************)
(* Sending with and without a socket: the window is open and its history   *)
(* loaded, connect() has not been called yet; connect() and disconnect()   *)
(* may be called at any time.                                              *)
(***************************************************************************)
InitOffline ==
    /\ WindowLoaded
    /\ ServiceInit

NextOffline ==
    \/ connect
    \/ disconnect
    \/ \E i \in Indices(sockets) : On_connect(i)
    \/ Sends
    \/ Acks
    \/ AckHandlers

SpecOffline == InitOffline /\ [][NextOffline]_vars

(***************************************************************************)
(* Presence: status events and unread counts on a connected socket, the    *)
(* contacts loaded.                                                        *)
(***************************************************************************)
MaxBatch == 2       \* entries of one user:status-batch event

Entries == {StatusOf(u, st) : u \in Users, st \in Statuses}

RECURSIVE SeqsUpTo(_, _)
SeqsUpTo(S, n) ==
    IF n = 0 THEN {<<>>}
    ELSE SeqsUpTo(S, n - 1) \cup
         {Append(q, x) : q \in {r \in SeqsUpTo(S, n - 1) : Len(r) = n - 1}, x \in S}

\* The server answers user:check-status with one entry per user id asked for.
Batches ==
    {q \in SeqsUpTo(Entries, MaxBatch) :
        \A i, j \in Indices(q) : i # j => q[i].userId # q[j].userId}

InitPresence ==
    /\ ChatIdle(DirectId)
    /\ ServiceStart(setFriendsMap(Friends), <<"connected">>, 1)

NextPresence ==
    \/ \E userId \in Users, status \in Statuses : On_user_status(userId, status)
    \/ \E statuses \in Batches : On_user_status_batch(statuses)
    \/ Pushes
    \/ On_message_receive

SpecPresence == InitPresence /\ [][NextPresence]_vars

(***************************************************************************)
(* The functions of the three stores that no component calls, called in    *)
(* any order on a loaded page: the contacts and the groups are loaded and  *)
(* a window is open.  (clearTypingUsers is part of SpecTyping.)            *)
(***************************************************************************)
InitStores ==
    /\ WindowLoaded
    /\ focus \in {DirectId, GroupId}
    /\ ConnStart(setFriendsMap(Friends), <<"connected">>, 1)
    /\ GroupStart(LoadedGroups, [g \in Groups |-> LoadedMembers])

Clears ==
    \/ \E c \in Shown : clearMessages(c)
    \/ \E c \in Shown, lastMessage \in {NoLastMessage, ServerId(1)}, unreadCount \in UnreadCounts :
            AddConversation(c, Conversation(lastMessage, unreadCount))
    \/ \E c \in Shown : RemoveConversation(c)
    \/ clearAll

ContactWrites ==
    \/ \E userId \in Friends : removeFriend(userId)
    \/ \E userId \in Friends, count \in UnreadCounts : updateContactUnreadCount(userId, count)
    \/ \E value \in BOOLEAN : setLoading(value)
    \/ clearAllContacts

GroupWrites ==
    \/ \E g \in Groups, count \in UnreadCounts : updateGroupUnreadCount(g, count)
    \/ \E member \in {Member("u3", FALSE), Member("u3", TRUE)} : addGroupMember(GroupId, member)
    \/ clearAllGroups

NextStores ==
    \/ Clears
    \/ ContactWrites
    \/ GroupWrites
    \/ unlockAudio

SpecStores == InitStores /\ [][NextStores]_vars

(***************************************************************************)
(* Vocabulary of the properties                                            *)
(***************************************************************************)
AckTypes == {"message:sent", "group:message:sent", "ai-friend:user-message-sent"}
ReceiveTypes == {"message:receive", "group:message:receive"}
ChunkTypes == {"group:ai:stream-chunk", "ai-friend:stream-chunk"}
EndTypes == {"group:ai:stream-end", "ai-friend:stream-end"}
ErrorTypes == {"group:ai:error", "ai-friend:error"}

\* The list written by the last step, as it is now.
Current == GetMessages(messages, last.conv)

IsStreaming(m) == m.id \in StreamingIds

CountIn(s, P(_)) == Cardinality({i \in Indices(s) : P(s[i])})

\* The optimistic entries of the list before the last step that the
\* acknowledged message matches.
Matches == {i \in Indices(last.before) : IsOptimisticFor(last.before[i], last.msg)}

Highest(S) == CHOOSE i \in S : \A j \in S : j <= i

Confirmed(message) == [message EXCEPT !.isPending = FALSE]

\* Sends issued in a conversation: acknowledged by the server or still awaited.
SendsIssued(c) == Len(serverLog[c]) + Len(outbox[c])

AllAcknowledged(c) == outbox[c] = <<>> /\ inbox = <<>>

(***************************************************************************)
(* C1  Promotion correctness.  In a run of local sends and their           *)
(* acknowledgements, once every send has been acknowledged and the         *)
(* acknowledgement handled, the conversation holds exactly one entry per   *)
(* send and none of them is pending.                                       *)
(***************************************************************************)
PromotionCorrectness ==
    \A c \in Convs :
        AllAcknowledged(c) =>
            /\ Len(GetMessages(messages, c)) = SendsIssued(c)
            /\ \A i \in Indices(GetMessages(messages, c)) :
                    ~GetMessages(messages, c)[i].isPending

(***************************************************************************)
(* C2  Promotion miss.  An acknowledgement that finds no pending entry     *)
(* with its content appends the acknowledged message at the end and        *)
(* changes nothing else: the list grows by exactly one entry.              *)
(***************************************************************************)
PromotionMiss ==
    (last.type \in AckTypes /\ Matches = {}) =>
        Current = Append(last.before, last.msg)

PromotionMissWitness ==
    /\ last.type \in AckTypes
    /\ Matches = {}
    /\ Len(last.before) >= 1
    /\ Len(Current) = Len(last.before) + 1

(***************************************************************************)
(* C3  Identifier uniqueness.  No two entries of one conversation's list   *)
(* have the same id.                                                       *)
(***************************************************************************)
IdentifierUniqueness ==
    \A c \in DOMAIN messages :
        \A i, j \in Indices(messages[c]) :
            i # j => messages[c][i].id # messages[c][j].id

(***************************************************************************)
(* C4  Single-slot promotion.  An acknowledgement that matches pending     *)
(* entries replaces exactly one of them, the last one, by the confirmed    *)
(* message; every other entry, pending ones with the same content          *)
(* included, is left as it was.                                            *)
(***************************************************************************)
SingleSlotPromotion ==
    (last.type \in AckTypes /\ Matches # {}) =>
        Current = [last.before EXCEPT ![Highest(Matches)] = Confirmed(last.msg)]

(***************************************************************************)
(* C5  Ordering.  A message added by addMessage (a push of another         *)
(* participant, an optimistic send) goes to the end of the list, behind    *)
(* everything handled earlier.  A promotion keeps the length of the list,  *)
(* puts the confirmed message at the index of the optimistic entry, and    *)
(* leaves the content at every index and every non-matching entry as it    *)
(* was.                                                                    *)
(***************************************************************************)
Ordering ==
    /\ last.type \in ReceiveTypes \cup {"send"} =>
            Current = Append(last.before, last.msg)
    /\ (last.type \in AckTypes /\ Matches # {}) =>
            /\ Len(Current) = Len(last.before)
            /\ Current[Highest(Matches)] = Confirmed(last.msg)
            /\ \A j \in Indices(last.before) :
                    /\ Current[j].content = last.before[j].content
                    /\ j \notin Matches => Current[j] = last.before[j]

\* A promotion in the middle of the list: an entry stands behind the promoted one.
OrderingWitness ==
    /\ last.type \in AckTypes
    /\ Matches # {}
    /\ Highest(Matches) < Len(last.before)
    /\ Current[Highest(Matches)].id = last.msg.id

(***************************************************************************)
(* C6  Streaming idempotence.  After a stream-chunk event has been handled *)
(* (the first or any later one of a run of chunks, with or without a       *)
(* stream-start before them) the conversation holds exactly one streaming  *)
(* placeholder entry, and its content is the fullResponse of that chunk.   *)
(***************************************************************************)
StreamingIdempotence ==
    last.type \in ChunkTypes =>
        /\ CountIn(Current, IsStreaming) = 1
        /\ \A i \in Indices(Current) :
                IsStreaming(Current[i]) => Current[i].content = last.text

(***************************************************************************)
(* C7  One streaming slot under interleaving.  A chunk that arrives while  *)
(* the conversation holds one streaming entry updates that entry in place, *)
(* wherever other messages have been added behind it: the list keeps its   *)
(* length and still holds one streaming entry, with the chunk's text.      *)
(***************************************************************************)
OneStreamingSlot ==
    (last.type \in ChunkTypes /\ CountIn(last.before, IsStreaming) = 1) =>
        /\ Len(Current) = Len(last.before)
        /\ CountIn(Current, IsStreaming) = 1
        /\ \A i \in Indices(Current) :
                IsStreaming(Current[i]) => Current[i].content = last.text

(***************************************************************************)
(* C8  Streaming cleanup.  After a stream-end event has been handled the   *)
(* conversation holds no entry with a streaming placeholder id, and holds  *)
(* the final message exactly once, as its last entry.                      *)
(***************************************************************************)
StreamingCleanup ==
    last.type \in EndTypes =>
        /\ CountIn(Current, IsStreaming) = 0
        /\ Len(Current) >= 1
        /\ Current[Len(Current)] = last.msg
        /\ Cardinality({i \in Indices(Current) : Current[i].id = last.msg.id}) = 1

(***************************************************************************)
(* C9  Stream-error cleanup.  After an AI stream error event has been      *)
(* handled the conversation holds no streaming placeholder entry, whether  *)
(* or not its chat window is mounted.                                      *)
(***************************************************************************)
StreamErrorCleanup ==
    last.type \in ErrorTypes => CountIn(Current, IsStreaming) = 0

(***************************************************************************)
(* C10  Confirmed is terminal.  An entry that carries a server id is the   *)
(* message the server confirmed under that id: no event has changed its    *)
(* content or its flags.                                                   *)
(***************************************************************************)
ConfirmedIsTerminal ==
    \A c \in DOMAIN messages :
        \A i \in Indices(messages[c]) :
            messages[c][i].id.k = "srv" =>
                \E j \in Indices(serverLog[c]) : serverLog[c][j] = messages[c][i]

(***************************************************************************)
(* Vocabulary of the connection, typing and presence properties            *)
(***************************************************************************)
LossTypes == {"disconnect", "connect_error"}

\* The timer key of a typing entry.
KeyOf(c, userId) ==
    IF Kind(c) = "group" THEN GroupKey(c, userId) ELSE DirectKey(userId)

\* The participant whose message a push into conversation c carries.
Sender(c) == IF Kind(c) = "group" THEN GroupSender ELSE c

\* handleReconnect set a timer in the last step.
Scheduled == Len(timers) = Len(lastC.before.timers) + 1

\* What calling code can read of the connection: isConnected().
Observation == [isConnected |-> isConnected]

\* What it reads while the service is disconnected or still retrying.
OrdinaryObservation == [isConnected |-> FALSE]

NamedIn(statuses, u) == \E i \in Indices(statuses) : statuses[i].userId = u

\* The status the last entry naming u gives it.
LastStatus(statuses, u) ==
    statuses[Highest({i \in Indices(statuses) : statuses[i].userId = u})].status

(***************************************************************************)
(* C11  Typing expiry.  Every participant in a typing set has a pending    *)
(* expiry timer that will remove it: no entry is left in the store with    *)
(* nothing scheduled to remove it, also after disconnect().                *)
(***************************************************************************)
TypingExpiry ==
    \A c \in DOMAIN typingUsers :
        \A i \in Indices(typingUsers[c]) :
            BagIn(KeyOf(c, typingUsers[c][i]), armed)

(***************************************************************************)
(* C12  Typing cleared by message.  The step that handles a message of a   *)
(* participant who is in the conversation's typing set removes the         *)
(* participant from the typing set.                                        *)
(***************************************************************************)
TypingClearedByMessage ==
    [][\A c \in {DirectId, GroupId} :
            ( /\ inbox # <<>>
              /\ Head(inbox).type \in ReceiveTypes
              /\ Head(inbox).conv = c
              /\ inbox' = Tail(inbox)
              /\ IsTyping(typingUsers, c, Sender(c)) )
            => ~IsTyping(typingUsers', c, Sender(c))]_vars

(***************************************************************************)
(* C13  Reconnect backoff.  The delays handleReconnect has computed since  *)
(* the counter was last reset, by a connect event or by a call of          *)
(* disconnect(), start at 1000 ms, double at each attempt up to 30000 ms,  *)
(* never decrease, and are at most 10; a loss handled with the counter at  *)
(* 10 schedules nothing.                                                   *)
(***************************************************************************)
Backoff(ds) ==
    /\ Len(ds) <= MaxReconnectAttempts
    /\ \A i \in Indices(ds) :
            /\ ds[i] <= MaxReconnectDelay
            /\ i = 1 => ds[i] = InitialReconnectDelay
            /\ i > 1 => /\ ds[i] >= ds[i - 1]
                        /\ ds[i] = Min(2 * ds[i - 1], MaxReconnectDelay)

ReconnectBackoff ==
    /\ Backoff(run)
    /\ (lastC.type \in LossTypes
            /\ lastC.before.reconnectAttempts >= MaxReconnectAttempts)
        => /\ timers = lastC.before.timers
           /\ reconnectAttempts = lastC.before.reconnectAttempts

\* C13 as the claim states it, of the delays computed since the last connect
\* event, whatever was called in between: the first is 1000 ms, every later
\* one is the double of the one before it up to 30000 ms and not below it.
ReconnectBackoffSinceConnect ==
    /\ Len(delays) = 1 => delays[1] = InitialReconnectDelay
    /\ Len(delays) = 2 => /\ delays[2] >= delays[1]
                          /\ delays[2] = Min(2 * delays[1], MaxReconnectDelay)

\* An eleventh failure in a row: ten delays computed, nothing scheduled for it.
ReconnectBackoffWitness ==
    /\ Len(run) = MaxReconnectAttempts
    /\ run[MaxReconnectAttempts] = MaxReconnectDelay
    /\ lastC.type = "connect_error"
    /\ lastC.before.reconnectAttempts = MaxReconnectAttempts

(***************************************************************************)
(* C14  Batch presence isolation.  After a user:status-batch event the     *)
(* contact store holds the same contacts as before; each contact named in  *)
(* the batch has the status the batch gives it, every other contact is     *)
(* unchanged, and no unread count has changed.                             *)
(***************************************************************************)
BatchPresenceIsolation ==
    lastP.type = "user:status-batch" =>
        /\ DOMAIN friends = DOMAIN lastP.before
        /\ \A u \in DOMAIN friends :
                /\ friends[u].unreadCount = lastP.before[u].unreadCount
                /\ NamedIn(lastP.statuses, u) =>
                        friends[u].status = LastStatus(lastP.statuses, u)
                /\ ~NamedIn(lastP.statuses, u) => friends[u] = lastP.before[u]

\* A batch that changes a contact, names a stranger, and leaves alone a
\* contact that is online with unread messages.
BatchPresenceIsolationWitness ==
    /\ lastP.type = "user:status-batch"
    /\ \E u \in DOMAIN friends :
            NamedIn(lastP.statuses, u) /\ friends[u].status # lastP.before[u].status
    /\ \E u \in Users \ DOMAIN friends : NamedIn(lastP.statuses, u)
    /\ \E u \in DOMAIN friends :
            /\ ~NamedIn(lastP.statuses, u)
            /\ friends[u].status # "offline"

(***************************************************************************)
(* C15  connect is idempotent.  connect() called while the current socket  *)
(* is connected leaves the service as it was: no socket (and so no set of  *)
(* handlers) is added, and the reconnect state is unchanged.               *)
(***************************************************************************)
ConnectIdempotent ==
    ( /\ lastC.type = "connect()"
      /\ lastC.before.socket # 0
      /\ lastC.before.sockets[lastC.before.socket] = "connected" )
    => Snapshot = lastC.before

\* connect() on a connected socket while a reconnect timer is still pending.
ConnectIdempotentWitness ==
    /\ lastC.type = "connect()"
    /\ lastC.before.socket # 0
    /\ lastC.before.sockets[lastC.before.socket] = "connected"
    /\ lastC.before.timers # <<>>

(***************************************************************************)
(* C16  Successful connect.  After a connect event has been handled the    *)
(* attempt counter is 0, the base delay is 1000 ms, and the handler has    *)
(* emitted user:online exactly once.                                       *)
(***************************************************************************)
OnlineAnnouncement ==
    lastC.type = "connect" =>
        /\ reconnectAttempts = 0
        /\ reconnectDelay = InitialReconnectDelay
        /\ lastC.emits = 1

(***************************************************************************)
(* C17  disconnect().  After the call the socket is null and the socket it *)
(* held is closed, the typing-timer map is empty and no typing timer is    *)
(* pending, and the attempt counter is 0; a call in a state that is        *)
(* already so changes nothing.                                             *)
(***************************************************************************)
DisconnectTeardown ==
    lastC.type = "disconnect()" =>
        /\ socket = 0
        /\ lastC.before.socket # 0 => sockets[lastC.before.socket] = "closed"
        /\ typingTimeouts = {}
        /\ armed = EmptyBag
        /\ reconnectAttempts = 0
        /\ ( /\ lastC.before.socket = 0
             /\ lastC.before.typingTimeouts = {}
             /\ lastC.before.armed = EmptyBag
             /\ lastC.before.reconnectAttempts = 0 )
           => Snapshot = lastC.before

\* disconnect() with a socket, typing timers pending and a failed attempt counted.
DisconnectTeardownWitness ==
    /\ lastC.type = "disconnect()"
    /\ lastC.before.socket # 0
    /\ lastC.before.armed # EmptyBag
    /\ lastC.before.reconnectAttempts > 0

(***************************************************************************)
(* C18  Reconnect on every loss.  A disconnect event (of any reason) or a  *)
(* connect_error handled while the counter is below the cap counts an      *)
(* attempt and schedules it through handleReconnect.                       *)
(***************************************************************************)
ReconnectOnEveryLoss ==
    (lastC.type \in LossTypes
        /\ lastC.before.reconnectAttempts < MaxReconnectAttempts)
    => /\ Scheduled
       /\ reconnectAttempts = lastC.before.reconnectAttempts + 1

(***************************************************************************)
(* C19  Reconnect exhaustion is observable.  Once the attempt cap is       *)
(* reached, what calling code can read of the service differs from what it *)
(* reads while the service is disconnected or still retrying.              *)
(***************************************************************************)
ExhaustionObservable ==
    GivesUp => Observation # OrdinaryObservation

(***************************************************************************)
(* C20  Backoff timer cancellation.  A reconnect timer that fires and      *)
(* calls connect() on the current socket was scheduled after the last      *)
(* connect event and the last disconnect() call: timers scheduled before   *)
(* them have been cancelled.                                               *)
(***************************************************************************)
BackoffTimerCancellation ==
    (lastC.type = "timer" /\ lastC.target # 0) => ~lastC.timer.stale

(***************************************************************************)
(* C21  Pagination supersession.  When the result of a history request     *)
(* (the initial load or an older page) is applied, only the list of the    *)
(* conversation the request was started for is written: the list of every  *)
(* other conversation is as before, also when another conversation is      *)
(* shown by then.                                                          *)
(***************************************************************************)
Applies(f) == loadInitialMessages(f) \/ handleScrollLoaded(f)

OtherListsKept(f) ==
    /\ DOMAIN messages' \subseteq DOMAIN messages \cup {f.conv}
    /\ \A c \in DOMAIN messages \ {f.conv} :
            c \in DOMAIN messages' /\ messages'[c] = messages[c]

HistorySupersession ==
    [][\A f \in BagToSet(fetches) : Applies(f) => OtherListsKept(f)]_vars

\* A result has been applied while another conversation was shown.
HistorySupersessionWitness ==
    /\ last.type \in {"history", "page"}
    /\ last.win \notin {NoChat, last.conv}
    /\ last.conv \in DOMAIN messages
    /\ messages[last.conv] # <<>>

\* The same for an older page.
PageSupersessionWitness ==
    /\ last.type = "page"
    /\ last.win \notin {NoChat, last.conv}
    /\ Len(messages[last.conv]) > Len(last.before)

(***************************************************************************)
(* C22  Status resync on contact load.  Once a fetchFriends call has run   *)
(* to its end with a non-empty friend list and the socket is connected, a  *)
(* user:check-status request naming every friend of the list has been      *)
(* emitted, whichever of the two happened first.                           *)
(***************************************************************************)
StatusResync ==
    (fetched # {} /\ isConnected) => fetched \subseteq checked

(***************************************************************************)
(* C23  Reconnection success message.  The connect handler shows           *)
(* "Reconnected" exactly when the reconnect counter was above 0 when the   *)
(* connect event arrived; on a connect with the counter at 0 it shows      *)
(* nothing.                                                                *)
(***************************************************************************)
ReconnectedMessage ==
    lastC.type = "connect" =>
        (lastC.toast = "Reconnected" <=> lastC.before.reconnectAttempts > 0)

(***************************************************************************)
(* C24  Mute-aware group notification.  After group:message:receive for a  *)
(* group of the roster: if the group is not the active chat, its unread    *)
(* count is one higher than before in the group store and in the chat      *)
(* store, and a sound has been played and a notification shown exactly     *)
(* when the group is not muted or the message mentions the current user;   *)
(* if it is the active chat, the unread counts are as before and there is  *)
(* neither sound nor notification.  A conversation the chat store holds no *)
(* entry for counts as having nothing unread.                              *)
(***************************************************************************)
UnreadOf(cs, id) == IF id \in DOMAIN cs THEN cs[id].unreadCount ELSE 0

MuteAwareNotification ==
    lastG.type = "group:message:receive" =>
        LET was == lastG.before[lastG.group]
            is == userGroups[lastG.group]
            due == ~was.isMuted \/ lastG.hasMention
        IN  IF lastG.active
            THEN /\ is.unreadCount = was.unreadCount
                 /\ UnreadOf(conversations, lastG.group) =
                        UnreadOf(lastG.conversations, lastG.group)
                 /\ ~lastG.sound
                 /\ ~lastG.notification
            ELSE /\ is.unreadCount = was.unreadCount + 1
                 /\ UnreadOf(conversations, lastG.group) =
                        UnreadOf(lastG.conversations, lastG.group) + 1
                 /\ lastG.sound <=> due
                 /\ lastG.notification <=> due

(***************************************************************************)
(* C25  Mute persistence.  A group that is muted and still in the roster   *)
(* after the roster was replaced (setGroups), its members were set, it was *)
(* updated or group:member:added was handled, is still muted.              *)
(***************************************************************************)
RosterSteps == {"setGroups", "setGroupMembers", "updateGroup", "group:member:added"}

MutePersistence ==
    lastG.type \in RosterSteps =>
        \A g \in DOMAIN lastG.before \cap DOMAIN userGroups :
            lastG.before[g].isMuted => userGroups[g].isMuted

(***************************************************************************)
(* C30  Active chat stays valid.  After group:deleted, or                  *)
(* group:member:removed naming the current user, the group is not in the   *)
(* roster and the active chat is not that group.                           *)
(***************************************************************************)
ActiveChatValid ==
    (\/ lastG.type = "group:deleted"
     \/ lastG.type = "group:member:removed" /\ lastG.user = Me) =>
        /\ lastG.group \notin DOMAIN userGroups
        /\ window # lastG.group

(***************************************************************************)
(* C26  Typing timer supersession.  No key has more than one expiry timer  *)
(* pending and no participant is twice in a conversation's typing set.  A  *)
(* typing signal leaves every key that had a timer with exactly one, and   *)
(* neither a signal nor a timer that fires removes a participant whose     *)
(* timer is still pending: no timer that was superseded removes the entry, *)
(* it goes when the timer set by the last signal fires.                    *)
(***************************************************************************)
TypingOf(key) == IsTyping(typingUsers, key[1], key[Len(key)])

WasTyping(key) == IsTyping(lastC.before.typingUsers, key[1], key[Len(key)])

TimerSupersession ==
    /\ \A key \in BagToSet(armed) : CopiesIn(key, armed) = 1
    /\ \A c \in DOMAIN typingUsers :
            \A i, j \in Indices(typingUsers[c]) :
                typingUsers[c][i] = typingUsers[c][j] => i = j
    /\ lastC.type \in {"user:typing", "group:typing"} =>
            BagToSet(lastC.before.armed) \subseteq BagToSet(armed)
    /\ lastC.type \in {"user:typing", "group:typing", "typing-timeout"} =>
            \A key \in BagToSet(armed) : WasTyping(key) => TypingOf(key)

\* A signal has renewed the timer of a participant who was typing already.
TimerSupersessionWitness ==
    /\ lastC.type = "group:typing"
    /\ BagToSet(lastC.before.armed) = {GroupKey(GroupId, "u2"), DirectKey("u1")}
    /\ lastC.before.armed = armed
    /\ TypingOf(GroupKey(GroupId, "u2"))

(***************************************************************************)
(* C27  Single live transport.  At most one of the sockets created has not *)
(* been closed: no two sockets with the service's handlers attached can    *)
(* both deliver the server's events.                                       *)
(***************************************************************************)
Live == {i \in Indices(sockets) : sockets[i] # "closed"}

SingleLiveTransport == Cardinality(Live) <= 1

(***************************************************************************)
(* C28  History load does not lose live state.  When the result of the     *)
(* initial history request of a conversation is applied, every message     *)
(* that was in the conversation's list before (appended while the request  *)
(* was in flight) is in the list afterwards, exactly once.                 *)
(***************************************************************************)
HistoryKeepsLiveState ==
    last.type = "history" =>
        \A i \in Indices(last.before) :
            CountIn(Current, LAMBDA m : m.id = last.before[i].id) = 1

(***************************************************************************)
(* C29  Optimistic entries are eventually resolved.  Every pending entry   *)
(* of a list has an acknowledgement on its way that can resolve it: the    *)
(* server still holds its send, or the acknowledgement is in the socket's  *)
(* queue.  An entry with neither stays pending forever.                    *)
(***************************************************************************)
Awaited(c) ==
    Len(outbox[c]) +
    Cardinality({i \in Indices(inbox) : inbox[i].type \in AckTypes /\ inbox[i].conv = c})

OptimisticResolved ==
    \A c \in DOMAIN messages :
        CountIn(messages[c], LAMBDA m : m.isPending) <= Awaited(c)

====
